---- MODULE Spec2Model ----
(***************************************************************************)
(* Batch operation engine of gh-security-config: the concurrent worker-pool *)
(* runner (ConcurrentProcessor) and the sequential/delayed runner           *)
(* (SequentialProcessor), with the result aggregation and the fatal-abort   *)
(* protocol, modelled from internal/processors.                             *)
(***************************************************************************)
EXTENDS Integers, Sequences, FiniteSets, TLC

\* ---------------------------------------------------------------- bounds
MaxTargets == 2
MaxConcurrency == 2
MaxDelay == 2
MaxRuns == 2

Targets == 1..MaxTargets
Workers == 1..MaxConcurrency

\* ------------------------------------------------- results and error values
\* An error value is its Unwrap chain, outermost first; the empty chain is nil.
NilError == <<>>
OrdinaryError == <<"other">>
ConfigurationExistsError == <<"ConfigurationExistsError">>
WrappedConfigurationExistsError == <<"wrap", "ConfigurationExistsError">>
DependabotUnavailableError == <<"wrap", "DependabotUnavailableError">>

\* errors.As(err, &target): walks the chain looking for a value of the type.
ErrorsAs(err, target) == \E k \in DOMAIN err : err[k] = target

ProcessingResult(org, success, skipped, err) ==
    [Organization |-> org, Success |-> success, Skipped |-> skipped, Error |-> err]

NoResult == ProcessingResult(0, FALSE, FALSE, NilError)

\* What an OrganizationProcessor may hand back for one organization.
ProcessOrganization(org) ==
    { ProcessingResult(org, TRUE, FALSE, NilError),
      ProcessingResult(org, FALSE, TRUE, NilError),
      ProcessingResult(org, FALSE, FALSE, OrdinaryError),
      ProcessingResult(org, FALSE, FALSE, ConfigurationExistsError),
      ProcessingResult(org, FALSE, FALSE, WrappedConfigurationExistsError),
      ProcessingResult(org, FALSE, FALSE, DependabotUnavailableError) }

VARIABLES
    runner,           \* "concurrent" or "sequential": which processor was constructed
    organizations,    \* the target list
    concurrency,      \* cp.concurrency
    delay,            \* sp.delay
    pc,               \* position of the thread that called Process
    i,                \* sequential loop index (1-based)
    result,           \* the result being handled by the Process loop
    successCount, skippedCount, errorCount,
    stopSignal,       \* cp.stopSignal: "open" or "closed"
    stopped,          \* cp.stopped
    closes,           \* number of close(cp.stopSignal) executed
    mu,               \* cp.mu held
    resultsProcessed,
    progressBar,      \* current value of the progress bar
    orgChan,          \* buffered work queue (closed once loaded)
    resultChan,       \* buffered results channel
    resultChanClosed,
    wg,               \* WaitGroup counter
    wpc, worg, wres,  \* per worker: position, organization in hand, result in hand
    supervisor,       \* goroutine that waits for wg and closes resultChan
    drain,            \* background drain goroutine
    invoked,          \* per target: number of ProcessOrganization invocations started
    returned,         \* per target: the result ProcessOrganization returned, if any
    order,            \* targets in the order their invocation started
    consumed,         \* targets whose result the Process loop has taken up
    sleeps,           \* durations slept by the sequential runner
    ret,              \* the triple returned by Process
    runs,             \* number of Process calls made on the processor
    processor,        \* the OrganizationProcessor handling one organization
    remote,           \* what the GitHub API holds and answers for that organization
    ppc,              \* position inside ProcessOrganization
    configID,         \* the configuration ID the processor holds
    calls,            \* API calls made so far, in order
    presult,          \* the ProcessingResult handed back
    flags,            \* command-line flags of one command invocation
    cmdpc,            \* position inside the command's run function
    runners,          \* runners constructed and run by the command
    replication       \* the replication command printed at the end

vars == << runner, organizations, concurrency, delay, pc, i, result,
           successCount, skippedCount, errorCount, stopSignal, stopped, closes,
           mu, resultsProcessed, progressBar, orgChan, resultChan,
           resultChanClosed, wg, wpc, worg, wres, supervisor, drain,
           invoked, returned, order, consumed, sleeps, ret, runs,
           processor, remote, ppc, configID, calls, presult,
           flags, cmdpc, runners, replication >>

totalOrgs == Len(organizations)

cpVars == << stopSignal, stopped, closes, mu, resultsProcessed, orgChan,
             resultChan, resultChanClosed, wg, wpc, worg, wres, supervisor, drain >>
procVars == << processor, remote, ppc, configID, calls, presult >>
cmdVars == << flags, cmdpc, runners, replication >>
\* What a step of a runner never touches: its construction parameters, and
\* the state of the processors and of the command around it.
cfgVars == << runner, organizations, concurrency, delay, runs, procVars, cmdVars >>
countVars == << successCount, skippedCount, errorCount >>
histVars == << invoked, returned, order, consumed >>
workerVars == << wpc, worg, wres >>

\* No organization is inside a processor.
NoProcessor == [kind |-> "none"]
NoRemote == [userOk |-> TRUE, membership |-> "none", configs |-> <<>>]

ProcessorIdle ==
    /\ processor = NoProcessor /\ remote = NoRemote
    /\ ppc = "idle" /\ configID = 0 /\ calls = <<>> /\ presult = NoResult

\* No command is being run.
NoFlags == [command |-> "none"]

CommandIdle ==
    /\ flags = NoFlags /\ cmdpc = "idle" /\ runners = <<>> /\ replication = <<>>

\* NewConcurrentProcessor / NewSequentialProcessor: zero counters, open signal.
Init ==
    /\ ProcessorIdle /\ CommandIdle /\ runs = 1
    /\ runner \in {"concurrent", "sequential"}
    /\ \E n \in 0..MaxTargets : organizations = [k \in 1..n |-> k]
    /\ concurrency \in (IF runner = "concurrent" THEN 1..MaxConcurrency ELSE {1})
    /\ delay \in (IF runner = "sequential" THEN 0..MaxDelay ELSE {0})
    /\ pc = "start"
    /\ i = 0
    /\ result = NoResult
    /\ successCount = 0 /\ skippedCount = 0 /\ errorCount = 0
    /\ stopSignal = "open" /\ stopped = FALSE /\ closes = 0
    /\ mu = FALSE
    /\ resultsProcessed = 0
    /\ progressBar = 0
    /\ orgChan = <<>> /\ resultChan = <<>> /\ resultChanClosed = FALSE
    /\ wg = 0
    /\ wpc = [w \in Workers |-> "none"]
    /\ worg = [w \in Workers |-> 0]
    /\ wres = [w \in Workers |-> NoResult]
    /\ supervisor = "none"
    /\ drain = "none"
    /\ invoked = [t \in Targets |-> 0]
    /\ returned = [t \in Targets |-> NoResult]
    /\ order = <<>>
    /\ consumed = {}
    /\ sleeps = <<>>
    /\ ret = <<>>

\* ======================================================== SequentialProcessor

\* Process, lines 35-47: the empty-list return, progress bar creation.
SpStart ==
    /\ runner = "sequential" /\ pc = "start"
    /\ IF totalOrgs = 0
         THEN pc' = "returned" /\ ret' = <<0, 0, 0>> /\ i' = i
         ELSE pc' = "loop" /\ i' = 1 /\ ret' = ret
    /\ UNCHANGED << cfgVars, result, countVars, cpVars, progressBar, histVars, sleeps >>

\* Faulty variant: the delay is also taken before the first organization.
SpDelayBeforeFirst ==
    /\ runner = "sequential" /\ pc = "loop" /\ i <= totalOrgs
    /\ sleeps' = IF delay > 0 THEN Append(sleeps, delay) ELSE sleeps
    /\ pc' = "call"
    /\ UNCHANGED << cfgVars, i, result, countVars, cpVars, progressBar, histVars, ret >>

\* Loop head and the delay between organizations (not before the first one).
SpDelay ==
    /\ runner = "sequential" /\ pc = "loop" /\ i <= totalOrgs
    /\ sleeps' = IF i > 1 /\ delay > 0 THEN Append(sleeps, delay) ELSE sleeps
    /\ pc' = "call"
    /\ UNCHANGED << cfgVars, i, result, countVars, cpVars, progressBar, histVars, ret >>

\* result := sp.processor.ProcessOrganization(org)
SpProcess ==
    /\ runner = "sequential" /\ pc = "call"
    /\ \E r \in ProcessOrganization(organizations[i]) :
          /\ result' = r
          /\ returned' = [returned EXCEPT ![organizations[i]] = r]
    /\ invoked' = [invoked EXCEPT ![organizations[i]] = @ + 1]
    /\ order' = Append(order, organizations[i])
    /\ consumed' = consumed \cup {organizations[i]}
    /\ pc' = "count"
    /\ UNCHANGED << cfgVars, i, countVars, cpVars, progressBar, sleeps, ret >>

\* The if / else-if chain on Success, Skipped, Error != nil.
SpCount ==
    /\ runner = "sequential" /\ pc = "count"
    /\ IF result.Success
         THEN /\ successCount' = successCount + 1
              /\ UNCHANGED << skippedCount, errorCount >> /\ pc' = "increment"
         ELSE IF result.Skipped
         THEN /\ skippedCount' = skippedCount + 1
              /\ UNCHANGED << successCount, errorCount >> /\ pc' = "increment"
         ELSE IF result.Error # NilError
         THEN /\ errorCount' = errorCount + 1
              /\ UNCHANGED << successCount, skippedCount >> /\ pc' = "classify"
         ELSE UNCHANGED countVars /\ pc' = "increment"
    /\ UNCHANGED << cfgVars, i, result, cpVars, progressBar, histVars, sleeps, ret >>

\* Faulty variant: the configuration-exists branch forgets errorCount--.
SpClassifyNoDecrement ==
    /\ runner = "sequential" /\ pc = "classify"
    /\ IF ErrorsAs(result.Error, "ConfigurationExistsError")
         THEN /\ skippedCount' = skippedCount + 1
              /\ errorCount' = errorCount
              /\ pc' = "increment"
              /\ UNCHANGED << progressBar, ret >>
         ELSE IF ErrorsAs(result.Error, "DependabotUnavailableError")
         THEN /\ skippedCount' = skippedCount + (totalOrgs - i)
              /\ progressBar' = progressBar + (totalOrgs - i)
              /\ errorCount' = errorCount
              /\ ret' = << successCount, skippedCount', errorCount >>
              /\ pc' = "returned"
         ELSE /\ pc' = "increment"
              /\ UNCHANGED << skippedCount, errorCount, progressBar, ret >>
    /\ UNCHANGED << cfgVars, i, result, successCount, cpVars, histVars, sleeps >>

\* Faulty variant: the fatal branch counts the remaining organizations and carries on.
SpClassifyNoReturn ==
    /\ runner = "sequential" /\ pc = "classify"
    /\ IF ErrorsAs(result.Error, "ConfigurationExistsError")
         THEN /\ skippedCount' = skippedCount + 1
              /\ errorCount' = errorCount - 1
              /\ pc' = "increment"
              /\ UNCHANGED << progressBar, ret >>
         ELSE IF ErrorsAs(result.Error, "DependabotUnavailableError")
         THEN /\ skippedCount' = skippedCount + (totalOrgs - i)
              /\ progressBar' = progressBar + (totalOrgs - i)
              /\ errorCount' = errorCount
              /\ pc' = "increment"
              /\ ret' = ret
         ELSE /\ pc' = "increment"
              /\ UNCHANGED << skippedCount, errorCount, progressBar, ret >>
    /\ UNCHANGED << cfgVars, i, result, successCount, cpVars, histVars, sleeps >>

\* Faulty variant: the fatal branch takes the failed organization back out of
\* errorCount, leaving it in no count.
SpClassifyFatalNotCounted ==
    /\ runner = "sequential" /\ pc = "classify"
    /\ IF ErrorsAs(result.Error, "ConfigurationExistsError")
         THEN /\ skippedCount' = skippedCount + 1
              /\ errorCount' = errorCount - 1
              /\ pc' = "increment"
              /\ UNCHANGED << progressBar, ret >>
         ELSE IF ErrorsAs(result.Error, "DependabotUnavailableError")
         THEN /\ skippedCount' = skippedCount + (totalOrgs - i)
              /\ progressBar' = progressBar + (totalOrgs - i)
              /\ errorCount' = errorCount - 1
              /\ ret' = << successCount, skippedCount', errorCount' >>
              /\ pc' = "returned"
         ELSE /\ pc' = "increment"
              /\ UNCHANGED << skippedCount, errorCount, progressBar, ret >>
    /\ UNCHANGED << cfgVars, i, result, successCount, cpVars, histVars, sleeps >>

\* Error classification: configuration exists, Dependabot unavailable, other.
\* (the code's i is 0-based: totalOrgs - (i + 1) there is totalOrgs - i here)
SpClassify ==
    /\ runner = "sequential" /\ pc = "classify"
    /\ IF ErrorsAs(result.Error, "ConfigurationExistsError")
         THEN /\ skippedCount' = skippedCount + 1
              /\ errorCount' = errorCount - 1
              /\ pc' = "increment"
              /\ UNCHANGED << progressBar, ret >>
         ELSE IF ErrorsAs(result.Error, "DependabotUnavailableError")
         THEN /\ skippedCount' = skippedCount + (totalOrgs - i)
              /\ progressBar' = progressBar + (totalOrgs - i)
              /\ errorCount' = errorCount
              /\ ret' = << successCount, skippedCount', errorCount >>
              /\ pc' = "returned"
         ELSE /\ pc' = "increment"
              /\ UNCHANGED << skippedCount, errorCount, progressBar, ret >>
    /\ UNCHANGED << cfgVars, i, result, successCount, cpVars, histVars, sleeps >>

\* sp.progressBar.Increment() and the next iteration.
SpIncrement ==
    /\ runner = "sequential" /\ pc = "increment"
    /\ progressBar' = progressBar + 1
    /\ i' = i + 1
    /\ result' = NoResult
    /\ pc' = "loop"
    /\ UNCHANGED << cfgVars, countVars, cpVars, histVars, sleeps, ret >>

\* Loop exhausted: progressBar.Stop() and the final return.
SpFinish ==
    /\ runner = "sequential" /\ pc = "loop" /\ i > totalOrgs
    /\ ret' = << successCount, skippedCount, errorCount >>
    /\ pc' = "returned"
    /\ UNCHANGED << cfgVars, i, result, countVars, cpVars, progressBar, histVars, sleeps >>

\* ======================================================== ConcurrentProcessor

\* Faulty variant: no empty-list return, the pool is started for any list.
CpStartNoEmptyCheck ==
    /\ runner = "concurrent" /\ pc = "start"
    /\ orgChan' = organizations
    /\ wg' = wg + concurrency
    /\ wpc' = [w \in Workers |-> IF w <= concurrency THEN "select" ELSE "none"]
    /\ supervisor' = "wait"
    /\ pc' = "range"
    /\ ret' = ret
    /\ UNCHANGED << cfgVars, i, result, countVars, stopSignal, stopped, closes, mu,
                    resultsProcessed, progressBar, resultChan, resultChanClosed,
                    worg, wres, drain, histVars, sleeps >>

\* Faulty variant: the start loop runs once too often and launches
\* concurrency + 1 workers.
CpStartExtraWorker ==
    /\ runner = "concurrent" /\ pc = "start"
    /\ IF totalOrgs = 0
         THEN /\ pc' = "returned" /\ ret' = <<0, 0, 0>>
              /\ UNCHANGED << orgChan, wg, wpc, supervisor >>
         ELSE /\ orgChan' = organizations
              /\ wg' = wg + Cardinality({w \in Workers : w <= concurrency + 1})
              /\ wpc' = [w \in Workers |-> IF w <= concurrency + 1 THEN "select" ELSE "none"]
              /\ supervisor' = "wait"
              /\ pc' = "range"
              /\ ret' = ret
    /\ UNCHANGED << cfgVars, i, result, countVars, stopSignal, stopped, closes, mu,
                    resultsProcessed, progressBar, resultChan, resultChanClosed,
                    worg, wres, drain, histVars, sleeps >>

\* Process, lines 39-69: empty-list return; load and close orgChan; start the
\* workers (wg.Add(1) each) and the goroutine that waits for them.
CpStart ==
    /\ runner = "concurrent" /\ pc = "start"
    /\ IF totalOrgs = 0
         THEN /\ pc' = "returned" /\ ret' = <<0, 0, 0>>
              /\ UNCHANGED << orgChan, wg, wpc, supervisor >>
         ELSE /\ orgChan' = organizations
              /\ wg' = wg + concurrency
              /\ wpc' = [w \in Workers |-> IF w <= concurrency THEN "select" ELSE "none"]
              /\ supervisor' = "wait"
              /\ pc' = "range"
              /\ ret' = ret
    /\ UNCHANGED << cfgVars, i, result, countVars, stopSignal, stopped, closes, mu,
                    resultsProcessed, progressBar, resultChan, resultChanClosed,
                    worg, wres, drain, histVars, sleeps >>

\* worker, select case org, ok := <-orgChan with ok: the call begins.
WorkerRecvOrg(w) ==
    /\ wpc[w] = "select" /\ Len(orgChan) > 0
    /\ worg' = [worg EXCEPT ![w] = Head(orgChan)]
    /\ orgChan' = Tail(orgChan)
    /\ invoked' = [invoked EXCEPT ![Head(orgChan)] = @ + 1]
    /\ order' = Append(order, Head(orgChan))
    /\ wpc' = [wpc EXCEPT ![w] = "process"]
    /\ UNCHANGED << cfgVars, pc, i, result, countVars, stopSignal, stopped, closes, mu,
                    resultsProcessed, progressBar, resultChan, resultChanClosed, wg,
                    wres, supervisor, drain, returned, consumed, sleeps, ret >>

\* worker, select case <-orgChan with !ok (closed and empty): return, wg.Done().
WorkerRecvClosed(w) ==
    /\ wpc[w] = "select" /\ Len(orgChan) = 0
    /\ wpc' = [wpc EXCEPT ![w] = "done"]
    /\ wg' = wg - 1
    /\ UNCHANGED << cfgVars, pc, i, result, countVars, stopSignal, stopped, closes, mu,
                    resultsProcessed, progressBar, orgChan, resultChan, resultChanClosed,
                    worg, wres, supervisor, drain, histVars, sleeps, ret >>

\* Faulty variant: the stop-signal return skips wg.Done().
WorkerStopNoDone(w) ==
    /\ wpc[w] = "select" /\ stopSignal = "closed"
    /\ wpc' = [wpc EXCEPT ![w] = "done"]
    /\ wg' = wg
    /\ UNCHANGED << cfgVars, pc, i, result, countVars, stopSignal, stopped, closes, mu,
                    resultsProcessed, progressBar, orgChan, resultChan, resultChanClosed,
                    worg, wres, supervisor, drain, histVars, sleeps, ret >>

\* worker, select case <-cp.stopSignal: return, wg.Done().
WorkerStop(w) ==
    /\ wpc[w] = "select" /\ stopSignal = "closed"
    /\ wpc' = [wpc EXCEPT ![w] = "done"]
    /\ wg' = wg - 1
    /\ UNCHANGED << cfgVars, pc, i, result, countVars, stopSignal, stopped, closes, mu,
                    resultsProcessed, progressBar, orgChan, resultChan, resultChanClosed,
                    worg, wres, supervisor, drain, histVars, sleeps, ret >>

\* Faulty variant: a worker that finds the stop signal closed when the call
\* returns drops the result and ends.
WorkerProcessAbortsOnStop(w) ==
    /\ wpc[w] = "process"
    /\ \E r \in ProcessOrganization(worg[w]) :
          /\ returned' = [returned EXCEPT ![worg[w]] = r]
          /\ IF stopSignal = "closed"
               THEN /\ wpc' = [wpc EXCEPT ![w] = "done"]
                    /\ wg' = wg - 1
                    /\ wres' = wres
               ELSE /\ wres' = [wres EXCEPT ![w] = r]
                    /\ wpc' = [wpc EXCEPT ![w] = "send"]
                    /\ wg' = wg
    /\ UNCHANGED << cfgVars, pc, i, result, countVars, stopSignal, stopped, closes, mu,
                    resultsProcessed, progressBar, orgChan, resultChan, resultChanClosed,
                    worg, supervisor, drain, invoked, order, consumed, sleeps, ret >>

\* Faulty variant: an error result makes the worker call the processor again.
WorkerProcessRetry(w) ==
    /\ wpc[w] = "process"
    /\ \E r \in ProcessOrganization(worg[w]) :
          /\ returned' = [returned EXCEPT ![worg[w]] = r]
          /\ IF r.Error # NilError
               THEN /\ invoked' = [invoked EXCEPT ![worg[w]] = @ + 1]
                    /\ UNCHANGED << wres, wpc >>
               ELSE /\ wres' = [wres EXCEPT ![w] = r]
                    /\ wpc' = [wpc EXCEPT ![w] = "send"]
                    /\ invoked' = invoked
    /\ UNCHANGED << cfgVars, pc, i, result, countVars, stopSignal, stopped, closes, mu,
                    resultsProcessed, progressBar, orgChan, resultChan, resultChanClosed,
                    wg, worg, supervisor, drain, order, consumed, sleeps, ret >>

\* worker: cp.processor.ProcessOrganization(org) returns its result.
WorkerProcess(w) ==
    /\ wpc[w] = "process"
    /\ \E r \in ProcessOrganization(worg[w]) :
          /\ wres' = [wres EXCEPT ![w] = r]
          /\ returned' = [returned EXCEPT ![worg[w]] = r]
    /\ wpc' = [wpc EXCEPT ![w] = "send"]
    /\ UNCHANGED << cfgVars, pc, i, result, countVars, stopSignal, stopped, closes, mu,
                    resultsProcessed, progressBar, orgChan, resultChan, resultChanClosed,
                    wg, worg, supervisor, drain, invoked, order, consumed, sleeps, ret >>

\* Faulty variant: the worker returns after its first result instead of looping.
WorkerSendThenExit(w) ==
    /\ wpc[w] = "send" /\ Len(resultChan) < totalOrgs
    /\ resultChan' = Append(resultChan, wres[w])
    /\ wres' = [wres EXCEPT ![w] = NoResult]
    /\ worg' = [worg EXCEPT ![w] = 0]
    /\ wpc' = [wpc EXCEPT ![w] = "done"]
    /\ wg' = wg - 1
    /\ UNCHANGED << cfgVars, pc, i, result, countVars, stopSignal, stopped, closes, mu,
                    resultsProcessed, progressBar, orgChan, resultChanClosed,
                    supervisor, drain, histVars, sleeps, ret >>

\* worker: resultChan <- result (blocks while the buffer of totalOrgs is full).
WorkerSend(w) ==
    /\ wpc[w] = "send" /\ Len(resultChan) < totalOrgs
    /\ resultChan' = Append(resultChan, wres[w])
    /\ wres' = [wres EXCEPT ![w] = NoResult]
    /\ worg' = [worg EXCEPT ![w] = 0]
    /\ wpc' = [wpc EXCEPT ![w] = "select"]
    /\ wg' = wg
    /\ UNCHANGED << cfgVars, pc, i, result, countVars, stopSignal, stopped, closes, mu,
                    resultsProcessed, progressBar, orgChan, resultChanClosed,
                    supervisor, drain, histVars, sleeps, ret >>

\* go func() { wg.Wait(); close(resultChan) }()
SupervisorClose ==
    /\ supervisor = "wait" /\ wg = 0
    /\ resultChanClosed' = TRUE
    /\ supervisor' = "done"
    /\ UNCHANGED << cfgVars, pc, i, result, countVars, stopSignal, stopped, closes, mu,
                    resultsProcessed, progressBar, orgChan, resultChan, wg,
                    workerVars, drain, histVars, sleeps, ret >>

\* for result := range resultChan: receive, cp.mu.Lock(), resultsProcessed++.
CpReceive ==
    /\ runner = "concurrent" /\ pc = "range" /\ Len(resultChan) > 0
    /\ ~mu
    /\ result' = Head(resultChan)
    /\ resultChan' = Tail(resultChan)
    /\ mu' = TRUE
    /\ resultsProcessed' = resultsProcessed + 1
    /\ consumed' = consumed \cup {Head(resultChan).Organization}
    /\ pc' = "count"
    /\ UNCHANGED << cfgVars, i, countVars, stopSignal, stopped, closes, progressBar,
                    orgChan, resultChanClosed, wg, workerVars, supervisor, drain,
                    invoked, returned, order, sleeps, ret >>

\* The if / else-if chain on Success, Skipped, Error != nil.
CpCount ==
    /\ runner = "concurrent" /\ pc = "count"
    /\ IF result.Success
         THEN /\ successCount' = successCount + 1
              /\ UNCHANGED << skippedCount, errorCount >> /\ pc' = "increment"
         ELSE IF result.Skipped
         THEN /\ skippedCount' = skippedCount + 1
              /\ UNCHANGED << successCount, errorCount >> /\ pc' = "increment"
         ELSE IF result.Error # NilError
         THEN /\ errorCount' = errorCount + 1
              /\ UNCHANGED << successCount, skippedCount >> /\ pc' = "classify"
         ELSE UNCHANGED countVars /\ pc' = "increment"
    /\ UNCHANGED << cfgVars, i, result, cpVars, progressBar, histVars, sleeps, ret >>

\* remainingOrgs := totalOrgs - resultsProcessed
\* Faulty variant: counts the result in hand as remaining too.
RemainingOrgsOffByOne(total, processed) == total - processed + 1

RemainingOrgs(total, processed) == total - processed

\* Faulty variant: the fatal branch takes the failed target out of errorCount
\* and counts it with the skipped ones.
CpClassifyFatalAsSkipped ==
    /\ runner = "concurrent" /\ pc = "classify"
    /\ IF ErrorsAs(result.Error, "ConfigurationExistsError")
         THEN /\ skippedCount' = skippedCount + 1
              /\ errorCount' = errorCount - 1
              /\ pc' = "increment"
              /\ UNCHANGED << stopped, stopSignal, closes, progressBar, mu, drain >>
         ELSE IF ErrorsAs(result.Error, "DependabotUnavailableError")
         THEN /\ IF ~stopped
                   THEN stopped' = TRUE /\ stopSignal' = "closed" /\ closes' = closes + 1
                   ELSE UNCHANGED << stopped, stopSignal, closes >>
              /\ skippedCount' = skippedCount + (totalOrgs - resultsProcessed) + 1
              /\ progressBar' = progressBar + (totalOrgs - resultsProcessed)
              /\ errorCount' = errorCount - 1
              /\ mu' = FALSE
              /\ drain' = "running"
              /\ pc' = "break"
         ELSE /\ pc' = "increment"
              /\ UNCHANGED << skippedCount, errorCount, stopped, stopSignal, closes,
                              progressBar, mu, drain >>
    /\ UNCHANGED << cfgVars, i, result, successCount, resultsProcessed, orgChan,
                    resultChan, resultChanClosed, wg, workerVars, supervisor,
                    histVars, sleeps, ret >>

\* Faulty variant: every error that is not configuration-exists takes the
\* fatal branch.
CpClassifyAnyErrorStops ==
    /\ runner = "concurrent" /\ pc = "classify"
    /\ IF ErrorsAs(result.Error, "ConfigurationExistsError")
         THEN /\ skippedCount' = skippedCount + 1
              /\ errorCount' = errorCount - 1
              /\ pc' = "increment"
              /\ UNCHANGED << stopped, stopSignal, closes, progressBar, mu, drain >>
         ELSE /\ IF ~stopped
                   THEN stopped' = TRUE /\ stopSignal' = "closed" /\ closes' = closes + 1
                   ELSE UNCHANGED << stopped, stopSignal, closes >>
              /\ skippedCount' = skippedCount + (totalOrgs - resultsProcessed)
              /\ progressBar' = progressBar + (totalOrgs - resultsProcessed)
              /\ errorCount' = errorCount
              /\ mu' = FALSE
              /\ drain' = "running"
              /\ pc' = "break"
    /\ UNCHANGED << cfgVars, i, result, successCount, resultsProcessed, orgChan,
                    resultChan, resultChanClosed, wg, workerVars, supervisor,
                    histVars, sleeps, ret >>

\* Faulty variant: the fatal branch closes the signal unguarded and keeps
\* consuming results instead of breaking out of the loop.
CpClassifyKeepConsuming ==
    /\ runner = "concurrent" /\ pc = "classify"
    /\ IF ErrorsAs(result.Error, "ConfigurationExistsError")
         THEN /\ skippedCount' = skippedCount + 1
              /\ errorCount' = errorCount - 1
              /\ pc' = "increment"
              /\ UNCHANGED << stopped, stopSignal, closes, progressBar, mu, drain >>
         ELSE IF ErrorsAs(result.Error, "DependabotUnavailableError")
         THEN /\ stopped' = TRUE
              /\ stopSignal' = "closed"
              /\ closes' = closes + 1
              /\ errorCount' = errorCount
              /\ skippedCount' = skippedCount
              /\ pc' = "increment"
              /\ UNCHANGED << progressBar, mu, drain >>
         ELSE /\ pc' = "increment"
              /\ UNCHANGED << skippedCount, errorCount, stopped, stopSignal, closes,
                              progressBar, mu, drain >>
    /\ UNCHANGED << cfgVars, i, result, successCount, resultsProcessed, orgChan,
                    resultChan, resultChanClosed, wg, workerVars, supervisor,
                    histVars, sleeps, ret >>

\* Faulty variant: the fatal branch breaks out of the loop without cp.mu.Unlock().
CpClassifyBreakLocked ==
    /\ runner = "concurrent" /\ pc = "classify"
    /\ IF ErrorsAs(result.Error, "ConfigurationExistsError")
         THEN /\ skippedCount' = skippedCount + 1
              /\ errorCount' = errorCount - 1
              /\ pc' = "increment"
              /\ UNCHANGED << stopped, stopSignal, closes, progressBar, mu, drain >>
         ELSE IF ErrorsAs(result.Error, "DependabotUnavailableError")
         THEN /\ IF ~stopped
                   THEN stopped' = TRUE /\ stopSignal' = "closed" /\ closes' = closes + 1
                   ELSE UNCHANGED << stopped, stopSignal, closes >>
              /\ skippedCount' = skippedCount + (totalOrgs - resultsProcessed)
              /\ progressBar' = progressBar + (totalOrgs - resultsProcessed)
              /\ errorCount' = errorCount
              /\ mu' = mu
              /\ drain' = "running"
              /\ pc' = "break"
         ELSE /\ pc' = "increment"
              /\ UNCHANGED << skippedCount, errorCount, stopped, stopSignal, closes,
                              progressBar, mu, drain >>
    /\ UNCHANGED << cfgVars, i, result, successCount, resultsProcessed, orgChan,
                    resultChan, resultChanClosed, wg, workerVars, supervisor,
                    histVars, sleeps, ret >>

\* Error classification. Fatal branch: close the stop signal once, count the
\* results not yet received as skipped, unlock, start the drain goroutine, break.
CpClassify ==
    /\ runner = "concurrent" /\ pc = "classify"
    /\ IF ErrorsAs(result.Error, "ConfigurationExistsError")
         THEN /\ skippedCount' = skippedCount + 1
              /\ errorCount' = errorCount - 1
              /\ pc' = "increment"
              /\ UNCHANGED << stopped, stopSignal, closes, progressBar, mu, drain >>
         ELSE IF ErrorsAs(result.Error, "DependabotUnavailableError")
         THEN /\ IF ~stopped
                   THEN stopped' = TRUE /\ stopSignal' = "closed" /\ closes' = closes + 1
                   ELSE UNCHANGED << stopped, stopSignal, closes >>
              /\ skippedCount' = skippedCount + RemainingOrgs(totalOrgs, resultsProcessed)
              /\ progressBar' = progressBar + RemainingOrgs(totalOrgs, resultsProcessed)
              /\ errorCount' = errorCount
              /\ mu' = FALSE
              /\ drain' = "running"
              /\ pc' = "break"
         ELSE /\ pc' = "increment"
              /\ UNCHANGED << skippedCount, errorCount, stopped, stopSignal, closes,
                              progressBar, mu, drain >>
    /\ UNCHANGED << cfgVars, i, result, successCount, resultsProcessed, orgChan,
                    resultChan, resultChanClosed, wg, workerVars, supervisor,
                    histVars, sleeps, ret >>

\* cp.progressBar.Increment(); cp.mu.Unlock()
CpIncrement ==
    /\ runner = "concurrent" /\ pc = "increment"
    /\ progressBar' = progressBar + 1
    /\ mu' = FALSE
    /\ result' = NoResult
    /\ pc' = "range"
    /\ UNCHANGED << cfgVars, i, countVars, stopSignal, stopped, closes, resultsProcessed,
                    orgChan, resultChan, resultChanClosed, wg, workerVars, supervisor,
                    drain, histVars, sleeps, ret >>

\* The range loop ends (channel closed and empty, or break): Stop() and return.
CpReturn ==
    /\ runner = "concurrent"
    /\ \/ pc = "break"
       \/ pc = "range" /\ Len(resultChan) = 0 /\ resultChanClosed
    /\ ret' = << successCount, skippedCount, errorCount >>
    /\ result' = NoResult
    /\ pc' = "returned"
    /\ UNCHANGED << cfgVars, i, countVars, cpVars, progressBar, histVars, sleeps >>

\* Faulty variant: the drain goroutine counts each result it discards.
DrainReceiveCounts ==
    /\ drain = "running" /\ Len(resultChan) > 0
    /\ resultChan' = Tail(resultChan)
    /\ skippedCount' = skippedCount + 1
    /\ UNCHANGED << cfgVars, pc, i, result, successCount, errorCount, stopSignal,
                    stopped, closes, mu, resultsProcessed, progressBar, orgChan,
                    resultChanClosed, wg, workerVars, supervisor, drain, histVars,
                    sleeps, ret >>

\* Drain goroutine: for range resultChan {} discards one result.
DrainReceive ==
    /\ drain = "running" /\ Len(resultChan) > 0
    /\ resultChan' = Tail(resultChan)
    /\ UNCHANGED << cfgVars, pc, i, result, countVars, stopSignal, stopped, closes, mu,
                    resultsProcessed, progressBar, orgChan, resultChanClosed, wg,
                    workerVars, supervisor, drain, histVars, sleeps, ret >>

\* Drain goroutine: the channel is closed and empty, the goroutine ends.
DrainExit ==
    /\ drain = "running" /\ Len(resultChan) = 0 /\ resultChanClosed
    /\ drain' = "done"
    /\ UNCHANGED << cfgVars, pc, i, result, countVars, stopSignal, stopped, closes, mu,
                    resultsProcessed, progressBar, orgChan, resultChan, resultChanClosed,
                    wg, workerVars, supervisor, histVars, sleeps, ret >>

\* ------------------------------------------------------------ specification
Worker(w) ==
    \/ WorkerRecvOrg(w)
    \/ WorkerRecvClosed(w)
    \/ WorkerStop(w)
    \/ WorkerProcess(w)
    \/ WorkerSend(w)

MainThread ==
    \/ SpStart \/ SpDelay \/ SpProcess \/ SpCount \/ SpClassify \/ SpIncrement \/ SpFinish
    \/ CpStart \/ CpReceive \/ CpCount \/ CpClassify \/ CpIncrement \/ CpReturn

Drain == DrainReceive \/ DrainExit

Next ==
    \/ MainThread
    \/ \E w \in Workers : Worker(w)
    \/ SupervisorClose
    \/ Drain

Spec == Init /\ [][Next]_vars

\* The Go scheduler does not halt while some goroutine can take a step, and
\* every ProcessOrganization call returns.
LiveSpec ==
    /\ Spec
    /\ WF_vars(Next)

\* ============================================================== processors
\* One ProcessOrganization call of the generate, delete, modify and apply
\* processors against one organization, API call by API call.

\* No runner is running: the engine's variables at rest.
EngineIdle ==
    /\ runner = "none" /\ organizations = <<>> /\ concurrency = 1 /\ delay = 0
    /\ pc = "idle" /\ i = 0 /\ result = NoResult
    /\ successCount = 0 /\ skippedCount = 0 /\ errorCount = 0
    /\ stopSignal = "open" /\ stopped = FALSE /\ closes = 0
    /\ mu = FALSE /\ resultsProcessed = 0 /\ progressBar = 0
    /\ orgChan = <<>> /\ resultChan = <<>> /\ resultChanClosed = FALSE
    /\ wg = 0
    /\ wpc = [w \in Workers |-> "none"]
    /\ worg = [w \in Workers |-> 0]
    /\ wres = [w \in Workers |-> NoResult]
    /\ supervisor = "none" /\ drain = "none"
    /\ invoked = [t \in Targets |-> 0]
    /\ returned = [t \in Targets |-> NoResult]
    /\ order = <<>> /\ consumed = {} /\ sleeps = <<>> /\ ret = <<>>
    /\ runs = 1

engineVars == << runner, organizations, concurrency, delay, pc, i, result,
                 countVars, cpVars, progressBar, histVars, sleeps, ret, runs >>

\* The organization the processor is called for, and the name it looks for.
TheOrg == CHOOSE t \in Targets : \A u \in Targets : t <= u
ConfigName == "cfg"

\* types.SecurityConfiguration values the organization may hold.
SecurityConfiguration(id, name) == [ID |-> id, Name |-> name]

RemoteConfigLists ==
    { <<>>,
      << SecurityConfiguration(2, "other") >>,
      << SecurityConfiguration(1, ConfigName) >>,
      << SecurityConfiguration(2, "other"), SecurityConfiguration(1, ConfigName) >>,
      << SecurityConfiguration(1, ConfigName), SecurityConfiguration(3, ConfigName) >> }

\* Answers of GET /orgs/{org}/memberships/{user}.
MembershipAnswers ==
    { "error404", "errorOther", "unparsable", "inactive", "activeMember", "activeAdmin" }

\* Values of a Dependabot setting in the settings map ("absent": key not set).
SettingValues == { "absent", "not_set", "disabled", "enabled" }

Processors ==
    [ kind : {"generate"}, Scope : {"none", "all"}, SetAsDefault : BOOLEAN,
      Force : BOOLEAN,
      Settings : [ dependabot_alerts : SettingValues,
                   dependabot_security_updates : SettingValues ] ]
    \cup [ kind : {"delete", "modify"} ]
    \cup [ kind : {"apply"}, Scope : {"", "all"}, SetAsDefault : BOOLEAN ]

\* fmt.Errorf("...: %w", err)
Errorf(err) == <<"wrap">> \o err

\* CheckSingleOrganizationMembership: (status, err).
CheckSingleOrganizationMembership(r) ==
    IF ~r.userOk
      THEN [err |-> Errorf(OrdinaryError), IsMember |-> FALSE, IsOwner |-> FALSE]
    ELSE IF r.membership \in {"error404", "errorOther", "unparsable", "inactive"}
      THEN [err |-> NilError, IsMember |-> FALSE, IsOwner |-> FALSE]
    ELSE [err |-> NilError, IsMember |-> TRUE, IsOwner |-> r.membership = "activeAdmin"]

\* The API calls CheckSingleOrganizationMembership makes.
MembershipCalls(r) ==
    IF r.userOk
      THEN << [api |-> "user", id |-> 0, ok |-> TRUE],
              [api |-> "memberships", id |-> 0,
               ok |-> r.membership \notin {"error404", "errorOther"}] >>
      ELSE << [api |-> "user", id |-> 0, ok |-> FALSE] >>

\* FindConfigurationByName: (ID, found) of the first configuration with the name.
RECURSIVE FindConfigurationByName(_, _)
FindConfigurationByName(configs, name) ==
    IF configs = <<>> THEN [ID |-> 0, found |-> FALSE]
    ELSE IF Head(configs).Name = name THEN [ID |-> Head(configs).ID, found |-> TRUE]
    ELSE FindConfigurationByName(Tail(configs), name)

\* What a failed gh.Exec("api", ...) leaves behind: the HTTP status the server
\* answered with and the message it sent, which the gh CLI prints on stderr
\* as "gh: <message> (HTTP <status>)". A text is its sequence of pieces.
ApiFailures ==
    { [status |-> 422, message |-> <<"Validation Failed">>],
      [status |-> 404, message |-> <<"Not Found">>],
      [status |-> 403, message |-> <<"You have exceeded a secondary rate limit.",
                                     " Request ID ", "E", "422", ":", "1A2B">>] }

Stderr(failure) ==
    <<"gh: ">> \o failure.message \o <<" (HTTP ", ToString(failure.status), ")">>

\* strings.Contains(s, substr)
Contains(s, substr) == \E k \in DOMAIN s : s[k] = substr

\* parseAPIError: the typed error if stderr contains "422" and a Dependabot
\* setting is switched on, nil otherwise.
ParseAPIError(stderr, settings) ==
    IF Contains(stderr, "422")
         /\ settings.dependabot_alerts \notin {"absent", "not_set", "disabled"}
      THEN <<"DependabotUnavailableError">>
    ELSE IF Contains(stderr, "422")
         /\ settings.dependabot_security_updates \notin {"absent", "not_set", "disabled"}
      THEN <<"DependabotUnavailableError">>
    ELSE NilError

\* A call of one API function for configuration id, and whether it succeeded.
Call(api, id, ok) == [api |-> api, id |-> id, ok |-> ok]

\* A failed call together with the status the server answered with.
FailedCall(api, id, failure) ==
    [api |-> api, id |-> id, ok |-> FALSE, status |-> failure.status]

\* The configuration list after DELETE of id / after POST of a new configuration.
WithoutConfig(configs, id) == SelectSeq(configs, LAMBDA c : c.ID # id)
NewConfigID(configs) ==
    IF configs = <<>> THEN 1
    ELSE 1 + CHOOSE m \in {configs[k].ID : k \in DOMAIN configs} :
                 \A k \in DOMAIN configs : configs[k].ID <= m

\* ProcessOrganization ends with this result.
Return(r) == presult' = r /\ ppc' = "done"

ProcInit ==
    /\ EngineIdle /\ CommandIdle
    /\ processor \in Processors
    /\ remote \in [ userOk : BOOLEAN, membership : MembershipAnswers,
                    configs : RemoteConfigLists ]
    /\ ppc = "membership" /\ configID = 0 /\ calls = <<>> /\ presult = NoResult

\* Faulty variant: a failed membership check is handed back as an error.
ValidateMembershipOrFail ==
    /\ ppc = "membership"
    /\ calls' = calls \o MembershipCalls(remote)
    /\ LET status == CheckSingleOrganizationMembership(remote)
       IN IF status.err # NilError
            THEN Return(ProcessingResult(TheOrg, FALSE, FALSE, status.err))
          ELSE IF ~status.IsMember \/ ~status.IsOwner
            THEN Return(ProcessingResult(TheOrg, FALSE, TRUE, NilError))
          ELSE ppc' = "fetch" /\ presult' = presult
    /\ UNCHANGED << engineVars, cmdVars, processor, remote, configID >>

\* if skipResult := api.ValidateMembershipAndSkip(org); skipResult != nil
ValidateMembershipAndSkip ==
    /\ ppc = "membership"
    /\ calls' = calls \o MembershipCalls(remote)
    /\ LET status == CheckSingleOrganizationMembership(remote)
       IN IF status.err # NilError \/ ~status.IsMember \/ ~status.IsOwner
            THEN Return(ProcessingResult(TheOrg, FALSE, TRUE, NilError))
            ELSE ppc' = "fetch" /\ presult' = presult
    /\ UNCHANGED << engineVars, cmdVars, processor, remote, configID >>

ApiError(wrapped) == ProcessingResult(TheOrg, FALSE, FALSE, Errorf(wrapped))
Skipped == ProcessingResult(TheOrg, FALSE, TRUE, NilError)
Succeeded == ProcessingResult(TheOrg, TRUE, FALSE, NilError)

\* The configuration the processor found by name on its fetch.
Found == FindConfigurationByName(remote.configs, ConfigName)

\* --------------------------------------------------------- GenerateProcessor
\* Faulty variant: without Force an existing configuration of that name is
\* not looked at and a second one is created.
GenerateFetchCreatesDuplicate ==
    /\ processor.kind = "generate" /\ ppc = "fetch"
    /\ configID' = Found.ID
    /\ \E ok \in BOOLEAN :
          /\ calls' = Append(calls, Call("fetch", 0, ok))
          /\ IF ~ok THEN Return(ApiError(OrdinaryError))
             ELSE IF Found.found /\ processor.Force
               THEN ppc' = "delete" /\ presult' = presult
             ELSE ppc' = "create" /\ presult' = presult
    /\ UNCHANGED << engineVars, cmdVars, processor, remote >>

\* processOrganization: fetch, then exists / Force decide what comes next.
GenerateFetch ==
    /\ processor.kind = "generate" /\ ppc = "fetch"
    /\ configID' = Found.ID
    /\ \E ok \in BOOLEAN :
          /\ calls' = Append(calls, Call("fetch", 0, ok))
          /\ IF ~ok THEN Return(ApiError(OrdinaryError))
             ELSE IF Found.found /\ processor.Force
               THEN ppc' = "delete" /\ presult' = presult
             ELSE IF Found.found
               THEN Return(ProcessingResult(TheOrg, FALSE, FALSE, ConfigurationExistsError))
             ELSE ppc' = "create" /\ presult' = presult
    /\ UNCHANGED << engineVars, cmdVars, processor, remote >>

\* Force: api.DeleteSecurityConfiguration(org, existingConfigID)
GenerateDelete ==
    /\ processor.kind = "generate" /\ ppc = "delete"
    /\ \E ok \in BOOLEAN :
          /\ calls' = Append(calls, Call("delete", configID, ok))
          /\ IF ~ok THEN Return(ApiError(OrdinaryError)) /\ remote' = remote
             ELSE /\ remote' = [remote EXCEPT !.configs = WithoutConfig(@, configID)]
                  /\ ppc' = "create" /\ presult' = presult
    /\ UNCHANGED << engineVars, cmdVars, processor, configID >>

\* What follows a successful create or attach in the generate processor.
GenerateAfter(step) ==
    IF step = "create" /\ processor.Scope # "none" THEN "attach"
    ELSE IF processor.SetAsDefault THEN "default"
    ELSE "done"

\* api.CreateSecurityConfiguration: a failure is the typed Dependabot error if
\* parseAPIError finds one, the plain error otherwise, wrapped by the caller.
GenerateCreate ==
    /\ processor.kind = "generate" /\ ppc = "create"
    /\ \E ok \in BOOLEAN, failure \in ApiFailures :
          /\ calls' = Append(calls, IF ok THEN Call("create", 0, ok)
                                     ELSE FailedCall("create", 0, failure))
          /\ IF ~ok
               THEN /\ LET apiErr == ParseAPIError(Stderr(failure), processor.Settings)
                       IN Return(ApiError(IF apiErr # NilError THEN apiErr ELSE OrdinaryError))
                    /\ remote' = remote /\ configID' = configID
               ELSE /\ remote' = [remote EXCEPT !.configs =
                           Append(@, SecurityConfiguration(NewConfigID(@), ConfigName))]
                    /\ configID' = NewConfigID(remote.configs)
                    /\ IF GenerateAfter("create") = "done"
                         THEN Return(Succeeded)
                         ELSE ppc' = GenerateAfter("create") /\ presult' = presult
    /\ UNCHANGED << engineVars, cmdVars, processor >>

\* Faulty variant: a failed attach is ignored and the operation carries on.
GenerateAttachFailureIgnored ==
    /\ processor.kind = "generate" /\ ppc = "attach"
    /\ \E ok \in BOOLEAN :
          /\ calls' = Append(calls, Call("attach", configID, ok))
          /\ IF GenerateAfter("attach") = "done" THEN Return(Succeeded)
             ELSE ppc' = GenerateAfter("attach") /\ presult' = presult
    /\ UNCHANGED << engineVars, cmdVars, processor, configID, remote >>

\* api.AttachConfigurationToRepos(org, configID, gp.Scope)
GenerateAttach ==
    /\ processor.kind = "generate" /\ ppc = "attach"
    /\ \E ok \in BOOLEAN :
          /\ calls' = Append(calls, Call("attach", configID, ok))
          /\ IF ~ok THEN Return(ApiError(OrdinaryError))
             ELSE IF GenerateAfter("attach") = "done" THEN Return(Succeeded)
             ELSE ppc' = GenerateAfter("attach") /\ presult' = presult
    /\ UNCHANGED << engineVars, cmdVars, processor, configID, remote >>

\* api.SetConfigurationAsDefault(org, configID)
GenerateSetDefault ==
    /\ processor.kind = "generate" /\ ppc = "default"
    /\ \E ok \in BOOLEAN :
          /\ calls' = Append(calls, Call("default", configID, ok))
          /\ IF ~ok THEN Return(ApiError(OrdinaryError)) ELSE Return(Succeeded)
    /\ UNCHANGED << engineVars, cmdVars, processor, configID, remote >>

\* ----------------------------------------------------------- DeleteProcessor
\* Faulty variant: a configuration that is not there counts as deleted.
DeleteFetchMissingIsSuccess ==
    /\ processor.kind = "delete" /\ ppc = "fetch"
    /\ configID' = Found.ID
    /\ \E ok \in BOOLEAN :
          /\ calls' = Append(calls, Call("fetch", 0, ok))
          /\ IF ~ok THEN Return(ApiError(OrdinaryError))
             ELSE IF ~Found.found THEN Return(Succeeded)
             ELSE ppc' = "delete" /\ presult' = presult
    /\ UNCHANGED << engineVars, cmdVars, processor, remote >>

\* deleteConfigurationFromOrg: fetch and find; not found is (false, nil).
DeleteFetch ==
    /\ processor.kind = "delete" /\ ppc = "fetch"
    /\ configID' = Found.ID
    /\ \E ok \in BOOLEAN :
          /\ calls' = Append(calls, Call("fetch", 0, ok))
          /\ IF ~ok THEN Return(ApiError(OrdinaryError))
             ELSE IF ~Found.found THEN Return(Skipped)
             ELSE ppc' = "delete" /\ presult' = presult
    /\ UNCHANGED << engineVars, cmdVars, processor, remote >>

\* api.DeleteSecurityConfiguration(org, configID)
DeleteDelete ==
    /\ processor.kind = "delete" /\ ppc = "delete"
    /\ \E ok \in BOOLEAN :
          /\ calls' = Append(calls, Call("delete", configID, ok))
          /\ IF ~ok THEN Return(ApiError(OrdinaryError)) /\ remote' = remote
             ELSE /\ remote' = [remote EXCEPT !.configs = WithoutConfig(@, configID)]
                  /\ Return(Succeeded)
    /\ UNCHANGED << engineVars, cmdVars, processor, configID >>

\* ----------------------------------------------------------- ModifyProcessor
\* modifyConfigurationInOrg: fetch and find; not found is (false, nil).
ModifyFetch ==
    /\ processor.kind = "modify" /\ ppc = "fetch"
    /\ configID' = Found.ID
    /\ \E ok \in BOOLEAN :
          /\ calls' = Append(calls, Call("fetch", 0, ok))
          /\ IF ~ok THEN Return(ApiError(OrdinaryError))
             ELSE IF ~Found.found THEN Return(Skipped)
             ELSE ppc' = "update" /\ presult' = presult
    /\ UNCHANGED << engineVars, cmdVars, processor, remote >>

\* api.UpdateSecurityConfiguration(org, configID, ...)
ModifyUpdate ==
    /\ processor.kind = "modify" /\ ppc = "update"
    /\ \E ok \in BOOLEAN :
          /\ calls' = Append(calls, Call("update", configID, ok))
          /\ IF ~ok THEN Return(ApiError(OrdinaryError)) ELSE Return(Succeeded)
    /\ UNCHANGED << engineVars, cmdVars, processor, configID, remote >>

\* ------------------------------------------------------------ ApplyProcessor
\* What follows the fetch or the attach in the apply processor.
ApplyAfter(step) ==
    IF step = "fetch" /\ processor.Scope # "" THEN "attach"
    ELSE IF processor.SetAsDefault THEN "default"
    ELSE "done"

\* Faulty variant: a configuration that is not there is handed back as a
\* result with neither Success nor Skipped nor Error set.
ApplyFetchMissingIsEmpty ==
    /\ processor.kind = "apply" /\ ppc = "fetch"
    /\ configID' = Found.ID
    /\ \E ok \in BOOLEAN :
          /\ calls' = Append(calls, Call("fetch", 0, ok))
          /\ IF ~ok THEN Return(ApiError(OrdinaryError))
             ELSE IF ~Found.found THEN Return(ProcessingResult(TheOrg, FALSE, FALSE, NilError))
             ELSE IF ApplyAfter("fetch") = "done" THEN Return(Succeeded)
             ELSE ppc' = ApplyAfter("fetch") /\ presult' = presult
    /\ UNCHANGED << engineVars, cmdVars, processor, remote >>

\* processOrganization: fetch and find; not found is a skip.
ApplyFetch ==
    /\ processor.kind = "apply" /\ ppc = "fetch"
    /\ configID' = Found.ID
    /\ \E ok \in BOOLEAN :
          /\ calls' = Append(calls, Call("fetch", 0, ok))
          /\ IF ~ok THEN Return(ApiError(OrdinaryError))
             ELSE IF ~Found.found THEN Return(Skipped)
             ELSE IF ApplyAfter("fetch") = "done" THEN Return(Succeeded)
             ELSE ppc' = ApplyAfter("fetch") /\ presult' = presult
    /\ UNCHANGED << engineVars, cmdVars, processor, remote >>

\* api.AttachConfigurationToRepos(org, existingConfigID, ap.Scope)
ApplyAttach ==
    /\ processor.kind = "apply" /\ ppc = "attach"
    /\ \E ok \in BOOLEAN :
          /\ calls' = Append(calls, Call("attach", configID, ok))
          /\ IF ~ok THEN Return(ApiError(OrdinaryError))
             ELSE IF ApplyAfter("attach") = "done" THEN Return(Succeeded)
             ELSE ppc' = ApplyAfter("attach") /\ presult' = presult
    /\ UNCHANGED << engineVars, cmdVars, processor, configID, remote >>

\* api.SetConfigurationAsDefault(org, existingConfigID)
ApplySetDefault ==
    /\ processor.kind = "apply" /\ ppc = "default"
    /\ \E ok \in BOOLEAN :
          /\ calls' = Append(calls, Call("default", configID, ok))
          /\ IF ~ok THEN Return(ApiError(OrdinaryError)) ELSE Return(Succeeded)
    /\ UNCHANGED << engineVars, cmdVars, processor, configID, remote >>

ProcNext ==
    \/ ValidateMembershipAndSkip
    \/ GenerateFetch \/ GenerateDelete \/ GenerateCreate
    \/ GenerateAttach \/ GenerateSetDefault
    \/ DeleteFetch \/ DeleteDelete
    \/ ModifyFetch \/ ModifyUpdate
    \/ ApplyFetch \/ ApplyAttach \/ ApplySetDefault

ProcSpec == ProcInit /\ [][ProcNext]_vars

\* ================================================================= commands
\* One invocation of a batch command (runDelete, runApply, runModify): flag
\* validation, the choice of the runner, and the replication command.

\* Limits of the --concurrency and --delay flags.
ConcurrencyLimit == 20
DelayLimit == 600

\* A string is the sequence of its pieces: words without blanks, " " and "\"".
EmptyString == <<>>
Blank == " "
Quote == "\""

\* Values tried for the string flags.
EnterpriseInputs == { <<"my-enterprise">> }
ServerURLInputs == { EmptyString, <<"ghes.example.com">> }
TemplateOrgInputs == { EmptyString, <<"template-org">>, <<"my", Blank, "org">> }
OrgInputs == { EmptyString, <<"acme">> }
OrgListInputs == { EmptyString, <<"my", Blank, "orgs.csv">> }

\* Flag values as cobra hands them over: the default when the flag is not given.
ConcurrencyInputs ==
    { [given |-> FALSE, v |-> 1] }
    \cup [ given : {TRUE}, v : {0, 1, 2, ConcurrencyLimit, ConcurrencyLimit + 1} ]
DelayInputs ==
    { [given |-> FALSE, v |-> 0] }
    \cup [ given : {TRUE}, v : {-1, 0, 1, DelayLimit, DelayLimit + 1} ]

CommandLines ==
    [ command : {"delete", "apply"},
      concurrency : ConcurrencyInputs, delay : DelayInputs,
      enterprise : EnterpriseInputs, serverURL : ServerURLInputs,
      templateOrg : TemplateOrgInputs,
      Org : OrgInputs, OrgListPath : OrgListInputs, AllOrgs : BOOLEAN,
      dependabotAlertsAvailable : {FALSE},
      dependabotSecurityUpdatesAvailable : {FALSE} ]
    \cup
    [ command : {"modify"},
      concurrency : ConcurrencyInputs, delay : DelayInputs,
      enterprise : EnterpriseInputs, serverURL : {EmptyString},
      templateOrg : TemplateOrgInputs,
      Org : OrgInputs, OrgListPath : {EmptyString}, AllOrgs : {FALSE},
      dependabotAlertsAvailable : BOOLEAN,
      dependabotSecurityUpdatesAvailable : BOOLEAN ]

\* CommonFlags.Concurrency and CommonFlags.Delay (GetInt: the value only).
Concurrency == flags.concurrency.v
Delay == flags.delay.v

\* The validators: TRUE when the function returns an error.
ValidateConcurrency(c) == c < 1 \/ c > ConcurrencyLimit
ValidateDelay(d) == d < 0 \/ d > DelayLimit
ValidateConcurrencyAndDelay(c, d) == c > 1 /\ d > 0

\* rootCmd.MarkFlagsMutuallyExclusive: TRUE when more than one flag of a
\* group was given on the command line.
FlagGroupViolated ==
    \/ flags.concurrency.given /\ flags.delay.given
    \/ Cardinality({ n \in {"org", "org-list", "all-orgs"} :
                       \/ n = "org" /\ flags.Org # EmptyString
                       \/ n = "org-list" /\ flags.OrgListPath # EmptyString
                       \/ n = "all-orgs" /\ flags.AllOrgs }) > 1

CmdInit ==
    /\ EngineIdle /\ ProcessorIdle
    /\ flags \in CommandLines
    /\ cmdpc = "parse" /\ runners = <<>> /\ replication = <<>>

\* cobra validates the flag groups before the run function is called.
ValidateFlagGroups ==
    /\ cmdpc = "parse"
    /\ cmdpc' = IF FlagGroupViolated THEN "rejected" ELSE "validate"
    /\ UNCHANGED << engineVars, procVars, flags, runners, replication >>

\* The run function: ValidateConcurrency, ValidateDelay,
\* ValidateConcurrencyAndDelay, each returning its error at once.
ValidateFlags ==
    /\ cmdpc = "validate"
    /\ cmdpc' = IF ValidateConcurrency(Concurrency) THEN "rejected"
                ELSE IF ValidateDelay(Delay) THEN "rejected"
                ELSE IF ValidateConcurrencyAndDelay(Concurrency, Delay) THEN "rejected"
                ELSE "prepare"
    /\ UNCHANGED << engineVars, procVars, flags, runners, replication >>

\* Enterprise input, organization list, confirmation: the command goes on or
\* returns (an error, or the user declined).
Prepare ==
    /\ cmdpc = "prepare"
    /\ \E ok \in BOOLEAN : cmdpc' = IF ok THEN "process" ELSE "returned"
    /\ UNCHANGED << engineVars, procVars, flags, runners, replication >>

SequentialRunner(d) == [kind |-> "sequential", delay |-> d]
ConcurrentRunner(c) == [kind |-> "concurrent", concurrency |-> c]

\* Faulty variant: the sequential runner is used whenever --delay was given.
SelectRunnerWhenDelayGiven ==
    /\ cmdpc = "process"
    /\ runners' = IF flags.delay.given
                    THEN Append(runners, SequentialRunner(Delay))
                    ELSE Append(runners, ConcurrentRunner(Concurrency))
    /\ cmdpc' = "replicate"
    /\ UNCHANGED << engineVars, procVars, flags, replication >>

\* if commonFlags.Delay > 0 { NewSequentialProcessor(...).Process() }
\* else { NewConcurrentProcessor(...).Process() }
SelectRunner ==
    /\ cmdpc = "process"
    /\ runners' = IF Delay > 0
                    THEN Append(runners, SequentialRunner(Delay))
                    ELSE Append(runners, ConcurrentRunner(Concurrency))
    /\ cmdpc' = "replicate"
    /\ UNCHANGED << engineVars, procVars, flags, replication >>

\* Values of the map[string]interface{} handed to BuildReplicationCommand.
StringValue(s) == [type |-> "string", v |-> s]
BoolValue(b) == [type |-> "bool", v |-> b]
IntValue(n) == [type |-> "int", v |-> n]

\* fmt.Sprintf("%t", b) and fmt.Sprintf("%d", n)
FormatBool(b) == IF b THEN <<"true">> ELSE <<"false">>
FormatInt(n) == << ToString(n) >>

\* replicationFlags as the run function fills it in.
ReplicationFlags ==
    LET base == ("enterprise-slug" :> StringValue(flags.enterprise))
                @@ ("github-enterprise-server-url" :> StringValue(flags.serverURL))
                @@ ("template-org" :> StringValue(flags.templateOrg))
                @@ ("concurrency" :> IntValue(Concurrency))
                @@ ("delay" :> IntValue(Delay))
        dependabot ==
            IF flags.command = "modify"
              THEN ("dependabot-alerts-available" :>
                        StringValue(FormatBool(flags.dependabotAlertsAvailable)))
                   @@ ("dependabot-security-updates-available" :>
                        StringValue(FormatBool(flags.dependabotSecurityUpdatesAvailable)))
              ELSE << >>
        targeting ==
            IF flags.Org # EmptyString THEN "org" :> StringValue(flags.Org)
            ELSE IF flags.OrgListPath # EmptyString
              THEN "org-list" :> StringValue(flags.OrgListPath)
            ELSE IF flags.AllOrgs THEN "all-orgs" :> BoolValue(TRUE)
            ELSE << >>
    IN  base @@ dependabot @@ targeting

flagOrder ==
    << "enterprise-slug", "github-enterprise-server-url", "org", "org-list",
       "all-orgs", "copy-from-org", "force", "dependabot-alerts-available",
       "dependabot-security-updates-available", "concurrency", "delay" >>

shortFlags ==
    ("org-list" :> "l") @@ ("concurrency" :> "c") @@ ("delay" :> "d")
    @@ ("enterprise-slug" :> "e") @@ ("github-enterprise-server-url" :> "u")
    @@ ("dependabot-alerts-available" :> "a")
    @@ ("dependabot-security-updates-available" :> "s")
    @@ ("copy-from-org" :> "o") @@ ("force" :> "f")

\* getShortFlag: the map lookup, "" for a flag that is not in the map.
getShortFlag(flagName) ==
    IF flagName \in DOMAIN shortFlags THEN shortFlags[flagName] ELSE ""

\* quoteIfNeeded: wrapped in double quotes if the string contains a blank.
quoteIfNeeded(s) ==
    IF \E k \in DOMAIN s : s[k] = Blank THEN <<Quote>> \o s \o <<Quote>> ELSE s

\* "-<short>" if the flag has a short form, "--<name>" otherwise.
FlagName(flagName) ==
    IF getShortFlag(flagName) # "" THEN <<"-", getShortFlag(flagName)>>
    ELSE <<"--", flagName>>

\* The type switch: the part appended for one flag, if any.
FlagParts(flagName, value) ==
    IF value.type = "string"
      THEN IF value.v # EmptyString
             THEN << FlagName(flagName) \o <<Blank>> \o quoteIfNeeded(value.v) >>
             ELSE << >>
    ELSE IF value.type = "bool"
      THEN IF value.v THEN << FlagName(flagName) >> ELSE << >>
    ELSE IF value.v > 0 /\ (\/ flagName = "concurrency" /\ value.v # 1
                            \/ flagName = "delay" /\ value.v # 0)
      THEN << FlagName(flagName) \o <<Blank>> \o FormatInt(value.v) >>
    ELSE << >>

\* The loop over flagOrder.
RECURSIVE CollectParts(_, _)
CollectParts(names, fl) ==
    IF names = << >> THEN << >>
    ELSE (IF Head(names) \in DOMAIN fl THEN FlagParts(Head(names), fl[Head(names)])
          ELSE << >>)
         \o CollectParts(Tail(names), fl)

\* strings.Join(parts, " ")
RECURSIVE Join(_)
Join(parts) ==
    IF parts = << >> THEN EmptyString
    ELSE IF Len(parts) = 1 THEN Head(parts)
    ELSE Head(parts) \o <<Blank>> \o Join(Tail(parts))

BuildReplicationCommand(command, fl) ==
    Join(<< <<"gh", Blank, "security-config">>, <<command>> >> \o CollectParts(flagOrder, fl))

\* replicationCommand := utils.BuildReplicationCommand(...); the command returns.
Replicate ==
    /\ cmdpc = "replicate"
    /\ replication' = BuildReplicationCommand(flags.command, ReplicationFlags)
    /\ cmdpc' = "done"
    /\ UNCHANGED << engineVars, procVars, flags, runners >>

CmdNext ==
    \/ ValidateFlagGroups \/ ValidateFlags \/ Prepare \/ SelectRunner \/ Replicate

CmdSpec == CmdInit /\ [][CmdNext]_vars

\* ========================================================== repeated Process
\* Process called again on the same processor value once the previous call
\* has returned and its goroutines have ended. The struct fields (counters,
\* stopSignal, stopped, mu) are what the previous call left; everything that
\* Process declares itself (channels, WaitGroup, resultsProcessed, the loop
\* index, the progress bar) is new, and the observations start over.
ProcessAgain ==
    /\ runner \in {"concurrent", "sequential"}
    /\ pc = "returned" /\ runs < MaxRuns
    /\ \A w \in Workers : wpc[w] \in {"none", "done"}
    /\ supervisor \in {"none", "done"} /\ drain \in {"none", "done"}
    /\ runs' = runs + 1
    /\ pc' = "start" /\ i' = 0 /\ result' = NoResult /\ ret' = <<>>
    /\ resultsProcessed' = 0 /\ progressBar' = 0
    /\ orgChan' = <<>> /\ resultChan' = <<>> /\ resultChanClosed' = FALSE
    /\ wg' = 0
    /\ wpc' = [w \in Workers |-> "none"]
    /\ worg' = [w \in Workers |-> 0]
    /\ wres' = [w \in Workers |-> NoResult]
    /\ supervisor' = "none" /\ drain' = "none"
    /\ invoked' = [t \in Targets |-> 0]
    /\ returned' = [t \in Targets |-> NoResult]
    /\ order' = <<>> /\ consumed' = {} /\ sleeps' = <<>>
    /\ UNCHANGED << runner, organizations, concurrency, delay, procVars, cmdVars,
                    countVars, stopSignal, stopped, closes, mu >>

RerunNext ==
    \/ MainThread
    \/ \E w \in Workers : Worker(w)
    \/ SupervisorClose
    \/ Drain
    \/ ProcessAgain

RerunSpec == Init /\ [][RerunNext]_vars

\* ================================================================ properties

IsFatal(r) == ErrorsAs(r.Error, "DependabotUnavailableError")
IsExists(r) == ErrorsAs(r.Error, "ConfigurationExistsError")
IsSkip(r) == r.Skipped \/ IsExists(r)
IsError(r) == r.Error # NilError /\ ~IsExists(r)
Orgs == 1..totalOrgs
HasReturned(t) == returned[t] # NoResult
NumberOf(S) == Cardinality(S)
WorkersQuiet == \A w \in Workers : wpc[w] \in {"none", "done"}
AllQuiet ==
    /\ pc = "returned" /\ WorkersQuiet
    /\ supervisor \in {"none", "done"} /\ drain \in {"none", "done"}
\* The Process loop is between results (not in the middle of handling one).
BetweenResults == pc \notin {"count", "classify", "increment"}

\* C1: whenever Process has returned, the returned triple sums to the number
\* of targets, for both runners and also after a fatal abort.
Conservation ==
    pc = "returned" => ret[1] + ret[2] + ret[3] = totalOrgs

ConservationWitness ==
    /\ pc = "returned" /\ runner = "concurrent" /\ stopped
    /\ totalOrgs >= 2 /\ ret[1] >= 1

\* C2: once the stop signal is closed, no step starts ProcessOrganization on a
\* further target.
NoNewTargetAfterStop ==
    [][stopSignal = "closed" => invoked' = invoked]_vars

\* C3: after an aborted concurrent run has come to rest, every target whose
\* operation returned is counted in the category of its own result, and only
\* the targets never invoked are counted as skipped on top.
InFlightCountedByOutcome ==
    (runner = "concurrent" /\ stopped /\ AllQuiet) =>
        /\ successCount = NumberOf({t \in Orgs : returned[t].Success})
        /\ errorCount = NumberOf({t \in Orgs : IsError(returned[t])})
        /\ skippedCount = NumberOf({t \in Orgs : IsSkip(returned[t])})
                          + NumberOf({t \in Orgs : invoked[t] = 0})

\* C4: ProcessOrganization is invoked at most once per target per run.
AtMostOncePerTarget ==
    \A t \in Targets : invoked[t] <= 1

AtMostOncePerTargetWitness ==
    /\ runner = "concurrent" /\ pc = "returned" /\ concurrency >= 2 /\ totalOrgs >= 2
    /\ \E t \in Orgs : IsError(returned[t]) /\ ~IsFatal(returned[t])
    /\ \A t \in Orgs : invoked[t] = 1

\* C5: when Process has returned and no target returned a fatal error, every
\* target of the list was invoked exactly once (and nothing else was).
AllProcessedExactlyOnce ==
    (pc = "returned" /\ ~ \E t \in Orgs : IsFatal(returned[t])) =>
        /\ \A t \in Orgs : invoked[t] = 1 /\ HasReturned(t)
        /\ order = organizations

AllProcessedExactlyOnceWitness ==
    /\ runner = "concurrent" /\ pc = "returned" /\ WorkersQuiet
    /\ totalOrgs >= 1 /\ concurrency > totalOrgs
    /\ \A t \in Orgs : invoked[t] = 1 /\ ~IsFatal(returned[t])

\* C6: between results, errorCount counts exactly the consumed results whose
\* error is not a (possibly wrapped) ConfigurationExistsError, skippedCount
\* counts each consumed configuration-exists result once as a skip, and the
\* stop signal is closed only if a fatal result was consumed.
ExistsCountsAsSkipped ==
    BetweenResults =>
        /\ errorCount = NumberOf({t \in consumed : IsError(returned[t])})
        /\ skippedCount = NumberOf({t \in consumed : IsSkip(returned[t])})
              + (IF \E t \in consumed : IsFatal(returned[t])
                   THEN totalOrgs - NumberOf(consumed) ELSE 0)
        /\ (stopSignal = "closed" \/ stopped \/ pc = "break")
              => \E t \in consumed : IsFatal(returned[t])
        /\ (pc = "returned" /\ totalOrgs > 0) => ret = << successCount, skippedCount, errorCount >>

ExistsCountsAsSkippedWitness ==
    /\ pc = "returned" /\ runner = "concurrent"
    /\ \E t \in consumed : returned[t].Error = ConfigurationExistsError
    /\ \E t \in consumed : returned[t].Error = WrappedConfigurationExistsError
    /\ ret[2] >= 2 /\ ret[3] = 0 /\ stopSignal = "open"

\* C7: the sequential runner invokes the targets in input order, and with a
\* delay it has slept the configured duration once before each target but
\* the first (nothing is slept with no delay).
ExpectedSleeps ==
    IF delay = 0 THEN 0
    ELSE IF pc = "call" THEN Len(order)
    ELSE IF Len(order) = 0 THEN 0
    ELSE Len(order) - 1

SequentialOrder ==
    runner = "sequential" =>
        /\ Len(order) <= totalOrgs
        /\ order = [k \in 1..Len(order) |-> organizations[k]]
        /\ sleeps = [k \in 1..ExpectedSleeps |-> delay]

SequentialOrderWitness ==
    /\ runner = "sequential" /\ pc = "returned" /\ delay > 0
    /\ Len(order) >= 2 /\ Len(sleeps) = Len(order) - 1

\* C8: in the sequential runner, once the target at position f has returned a
\* fatal error and been handled, Process has returned: nothing after f was
\* invoked or slept for, the untried targets are added to skippedCount only,
\* and the triple is the counts of the targets up to f.
FatalIndex == CHOOSE f \in Orgs : IsFatal(returned[f])

SequentialFatalAbort ==
    (runner = "sequential" /\ pc \notin {"count", "classify"}
       /\ \E f \in Orgs : IsFatal(returned[f])) =>
        LET f == FatalIndex
            tried == 1..f
        IN /\ pc = "returned"
           /\ Len(order) = f
           /\ \A t \in Orgs : t > f => invoked[t] = 0
           /\ Len(sleeps) = (IF delay > 0 THEN f - 1 ELSE 0)
           /\ ret = << NumberOf({t \in tried : returned[t].Success}),
                       NumberOf({t \in tried : IsSkip(returned[t])}) + (totalOrgs - f),
                       NumberOf({t \in tried : IsError(returned[t])}) >>

SequentialFatalAbortWitness ==
    /\ runner = "sequential" /\ pc = "returned" /\ delay > 0
    /\ \E f \in Orgs : IsFatal(returned[f]) /\ f < totalOrgs
    /\ ret[2] >= 1 /\ ret[3] = 1

\* C9: the stop signal is closed at most once in a run.
StopSignalClosedAtMostOnce ==
    closes <= 1

StopSignalClosedAtMostOnceWitness ==
    /\ AllQuiet /\ closes = 1
    /\ NumberOf({t \in Orgs : IsFatal(returned[t])}) >= 2

\* C10: a concurrent run always comes to rest: Process has returned and every
\* worker, the supervisor and the drain goroutine (if started) have ended.
ConcurrentRunTerminates ==
    runner = "concurrent" => <>AllQuiet

ConcurrentRunTerminatesWitness ==
    /\ runner = "concurrent" /\ AllQuiet /\ stopped /\ drain = "done"
    /\ supervisor = "done" /\ concurrency >= 2
    /\ NumberOf({t \in Orgs : invoked[t] = 1}) >= 2

\* C11: with an empty target list both runners return (0, 0, 0) at once: no
\* ProcessOrganization invocation, no worker or supervisor goroutine, no
\* WaitGroup or channel use, and the stop signal is left open and unclosed.
EmptyListReturnsZero ==
    totalOrgs = 0 =>
        /\ pc \in {"start", "returned"}
        /\ pc = "returned" => ret = <<0, 0, 0>>
        /\ order = <<>> /\ \A t \in DOMAIN invoked : invoked[t] = 0
        /\ \A w \in Workers : wpc[w] = "none"
        /\ supervisor = "none" /\ drain = "none" /\ wg = 0
        /\ orgChan = <<>> /\ resultChan = <<>> /\ ~resultChanClosed
        /\ stopSignal = "open" /\ ~stopped /\ closes = 0

EmptyListReturnsZeroWitness ==
    /\ runner = "concurrent" /\ concurrency >= 2
    /\ totalOrgs = 0 /\ pc = "returned" /\ ret = <<0, 0, 0>>

\* C12: handling a result whose error is neither configuration-exists nor
\* Dependabot-unavailable adds exactly one to errorCount, changes no other
\* counter, does not close the stop signal, start the drain or leave the loop;
\* and a run in which no fatal error was returned ends with every target
\* processed and counted by its own outcome.
IsOrdinary(r) == r.Error # NilError /\ ~IsExists(r) /\ ~IsFatal(r)

OrdinaryFailureStep ==
    (IsOrdinary(result) /\ pc' # pc) =>
        /\ pc = "count" =>
              /\ errorCount' = errorCount + 1 /\ pc' = "classify"
              /\ UNCHANGED << successCount, skippedCount >>
        /\ pc = "classify" =>
              /\ pc' = "increment"
              /\ UNCHANGED << countVars, stopSignal, stopped, closes, drain, ret >>
        /\ pc = "increment" =>
              /\ pc' \in {"loop", "range"}
              /\ UNCHANGED << countVars, stopSignal, stopped, closes, drain, ret >>

OrdinaryFailureCountsOneError ==
    /\ [][OrdinaryFailureStep]_vars
    /\ []((pc = "returned" /\ ~ \E t \in Orgs : IsFatal(returned[t])) =>
            /\ consumed = Orgs
            /\ stopSignal = "open" /\ closes = 0 /\ drain = "none"
            /\ ret = << NumberOf({t \in Orgs : returned[t].Success}),
                        NumberOf({t \in Orgs : IsSkip(returned[t])}),
                        NumberOf({t \in Orgs : IsError(returned[t])}) >>)

OrdinaryFailureCountsOneErrorWitness ==
    /\ pc = "returned" /\ totalOrgs >= 2 /\ stopSignal = "open"
    /\ returned[organizations[1]].Error = OrdinaryError
    /\ returned[organizations[2]].Success
    /\ ret = <<1, 0, 1>>

\* C20: a worker that has pulled a target leaves the call only with the result
\* the call returned and leaves the send only by appending that result to the
\* results channel and going back to the select, whatever the stop signal is;
\* and a worker about to send always finds room in an open results channel.
WorkerStepCompletesTarget ==
    \A w \in Workers :
        /\ wpc[w] = "process" =>
              /\ wpc'[w] \in {"process", "send"} /\ worg'[w] = worg[w]
              /\ wpc'[w] = "send" =>
                    /\ returned'[worg[w]] # NoResult
                    /\ wres'[w] = returned'[worg[w]]
        /\ wpc[w] = "send" =>
              \/ wpc'[w] = "send" /\ wres'[w] = wres[w] /\ worg'[w] = worg[w]
              \/ wpc'[w] = "select" /\ resultChan' = Append(resultChan, wres[w])

WorkerCompletesTarget ==
    /\ [][WorkerStepCompletesTarget]_vars
    /\ [](\A w \in Workers :
            wpc[w] = "send" =>
                /\ Len(resultChan) < totalOrgs /\ ~resultChanClosed
                /\ wres[w].Organization = worg[w])
    /\ [](\A t \in Orgs :
            NumberOf({k \in DOMAIN resultChan : resultChan[k].Organization = t}) <= 1)

WorkerCompletesTargetWitness ==
    /\ stopSignal = "closed" /\ pc = "returned"
    /\ \E w \in Workers : wpc[w] = "send" /\ wres[w].Success

\* ------------------------------------------------------ processor properties
MembershipFails == ~remote.userOk \/ remote.membership # "activeAdmin"
ConfigurationCalls == {"fetch", "create", "update", "delete", "attach", "default"}
CallsMade == {calls[k].api : k \in DOMAIN calls}
Last(s) == s[Len(s)]

\* C15: in each of the four processors, when the membership check fails (the
\* user lookup errors, the user is not an active member, or is a member but
\* not an owner) ProcessOrganization ends right after the check with a Skipped
\* result carrying no error, and no configuration API call is ever made.
MembershipFailureSkips ==
    MembershipFails =>
        /\ ppc \in {"membership", "done"}
        /\ CallsMade \cap ConfigurationCalls = {}
        /\ ppc = "done" =>
              /\ presult.Skipped /\ ~presult.Success /\ presult.Error = NilError
              /\ presult.Organization = TheOrg

MembershipFailureSkipsWitness ==
    /\ processor.kind = "generate" /\ ppc = "done"
    /\ ~remote.userOk /\ remote.configs # <<>>
    /\ presult.Skipped /\ calls = << Call("user", 0, FALSE) >>

\* C16: in the delete, modify and apply processors, when the fetched list
\* holds no configuration with the given name, the fetch step ends
\* ProcessOrganization with a Skipped result (neither Success nor an error)
\* and leaves the organization untouched; a Skipped result is never preceded
\* by a delete, update, attach, set-default or create call, and such a call is
\* only ever made for a configuration that was found by name.
LookupProcessors == {"delete", "modify", "apply"}

MissingConfigurationStep ==
    (processor.kind \in LookupProcessors /\ ppc = "fetch" /\ ~Found.found /\ ppc' # ppc) =>
        /\ ppc' = "done" /\ remote' = remote
        /\ \E ok \in BOOLEAN : calls' = Append(calls, Call("fetch", 0, ok))
        /\ Last(calls').ok =>
              /\ presult'.Skipped /\ ~presult'.Success /\ presult'.Error = NilError

MissingConfigurationSkips ==
    /\ [][MissingConfigurationStep]_vars
    /\ [](processor.kind \in LookupProcessors =>
            /\ presult.Skipped =>
                  CallsMade \cap {"create", "update", "delete", "attach", "default"} = {}
            /\ \A k \in DOMAIN calls :
                  calls[k].api \in {"update", "delete", "attach", "default"} =>
                      /\ calls[k].id = configID /\ configID # 0
                      /\ \E j \in 1..(k - 1) : calls[j] = Call("fetch", 0, TRUE))

MissingConfigurationSkipsWitness ==
    /\ processor.kind = "modify" /\ ppc = "done"
    /\ ~MembershipFails
    /\ remote.configs = << SecurityConfiguration(2, "other") >>
    /\ Last(calls) = Call("fetch", 0, TRUE)
    /\ presult = Skipped

\* -------------------------------------------------------- command properties
PastValidation == cmdpc \in {"prepare", "returned", "process", "replicate", "done"}
RunnerChosen == cmdpc \in {"replicate", "done"}

\* C17: a command invocation constructs and runs exactly one runner, at the
\* processing step: the sequential runner with the given delay when delay > 0,
\* the concurrent runner with the configured concurrency otherwise; before
\* that step, and in a rejected or abandoned invocation, no runner is run.
OneRunnerPerInvocation ==
    /\ Len(runners) <= 1
    /\ ~RunnerChosen => runners = <<>>
    /\ RunnerChosen =>
          runners = << IF Delay > 0 THEN [kind |-> "sequential", delay |-> Delay]
                       ELSE [kind |-> "concurrent", concurrency |-> Concurrency] >>

OneRunnerPerInvocationWitness ==
    /\ cmdpc = "done" /\ flags.delay.given /\ Delay = DelayLimit
    /\ Len(runners) = 1 /\ runners[1].kind = "sequential"

\* C18: an invocation gets past flag validation only when concurrency is
\* within 1..20, a given delay is within 1..600, and --concurrency and
\* --delay are not both given; a rejected invocation has run no runner.
FlagValidationAsDocumented ==
    /\ PastValidation =>
          /\ Concurrency \in 1..ConcurrencyLimit
          /\ flags.delay.given => Delay \in 1..DelayLimit
          /\ ~(flags.concurrency.given /\ flags.delay.given)
    /\ cmdpc = "rejected" => runners = <<>>

\* C19: the replication command starts with "gh security-config <command>"
\* and holds every supplied flag in its short form: the enterprise as -e, the
\* server URL as -u, the template organization as -t, the organization list as
\* -l, a non-default concurrency as -c and a non-zero delay as -d, with a
\* value that contains a blank wrapped in double quotes.
Holds(s, piece) ==
    \E k \in 0..(Len(s) - Len(piece)) : SubSeq(s, k + 1, k + Len(piece)) = piece
Quoted(s) == IF \E k \in DOMAIN s : s[k] = Blank THEN <<Quote>> \o s \o <<Quote>> ELSE s
HoldsFlag(short, value) ==
    Holds(replication \o <<Blank>>, <<Blank, "-", short, Blank>> \o Quoted(value) \o <<Blank>>)

ReplicationCommandWithoutTemplateOrg ==
    cmdpc = "done" =>
        /\ SubSeq(replication, 1, 5) = <<"gh", Blank, "security-config", Blank, flags.command>>
        /\ flags.enterprise # EmptyString => HoldsFlag("e", flags.enterprise)
        /\ flags.serverURL # EmptyString => HoldsFlag("u", flags.serverURL)
        /\ (flags.Org = EmptyString /\ flags.OrgListPath # EmptyString)
              => HoldsFlag("l", flags.OrgListPath)
        /\ Concurrency # 1 => HoldsFlag("c", <<ToString(Concurrency)>>)
        /\ Delay # 0 => HoldsFlag("d", <<ToString(Delay)>>)

ReplicationCommandComplete ==
    /\ ReplicationCommandWithoutTemplateOrg
    /\ (cmdpc = "done" /\ flags.templateOrg # EmptyString) =>
          /\ getShortFlag("template-org") = "t"
          /\ HoldsFlag("t", flags.templateOrg)

\* C14: every Process invocation starts from counters at zero and a stop
\* signal that has not fired, also when it is a second call on the same
\* processor, and the triple it returns counts its own targets only.
FreshStatePerInvocation ==
    /\ pc = "start" =>
          /\ successCount = 0 /\ skippedCount = 0 /\ errorCount = 0
          /\ stopSignal = "open" /\ ~stopped
    /\ pc = "returned" => ret[1] + ret[2] + ret[3] = totalOrgs

\* ------------------------------------------- four targets, two workers, A fatal
\* The run of the concurrent runner on [A, B, C, D] with concurrency 2 in
\* which A's operation returns a fatal error before B, C or D is pulled.
ScenarioInit ==
    /\ ProcessorIdle /\ CommandIdle /\ runs = 1
    /\ runner = "concurrent"
    /\ organizations = <<1, 2, 3, 4>>
    /\ concurrency = 2 /\ delay = 0
    /\ pc = "start" /\ i = 0 /\ result = NoResult
    /\ successCount = 0 /\ skippedCount = 0 /\ errorCount = 0
    /\ stopSignal = "open" /\ stopped = FALSE /\ closes = 0
    /\ mu = FALSE /\ resultsProcessed = 0 /\ progressBar = 0
    /\ orgChan = <<>> /\ resultChan = <<>> /\ resultChanClosed = FALSE
    /\ wg = 0
    /\ wpc = [w \in Workers |-> "none"]
    /\ worg = [w \in Workers |-> 0]
    /\ wres = [w \in Workers |-> NoResult]
    /\ supervisor = "none" /\ drain = "none"
    /\ invoked = [t \in DOMAIN organizations |-> 0]
    /\ returned = [t \in DOMAIN organizations |-> NoResult]
    /\ order = <<>> /\ consumed = {} /\ sleeps = <<>> /\ ret = <<>>

TargetA == organizations[1]

\* A worker pulls B, C or D only once A's operation has returned.
ScenarioRecvOrg(w) ==
    /\ Len(orgChan) > 0 /\ (Head(orgChan) # TargetA => HasReturned(TargetA))
    /\ WorkerRecvOrg(w)

\* A's operation returns a fatal error.
ScenarioProcess(w) ==
    /\ WorkerProcess(w)
    /\ worg[w] = TargetA => IsFatal(returned'[TargetA])

ScenarioNext ==
    \/ CpStart \/ CpReceive \/ CpCount \/ CpClassify \/ CpIncrement \/ CpReturn
    \/ \E w \in Workers :
          \/ ScenarioRecvOrg(w) \/ WorkerRecvClosed(w) \/ WorkerStop(w)
          \/ ScenarioProcess(w) \/ WorkerSend(w)
    \/ SupervisorClose
    \/ DrainReceive \/ DrainExit

ScenarioSpec == ScenarioInit /\ [][ScenarioNext]_vars

\* C13 as stated: the returned triple is (0, 4, 0) or (0, 3, 1).
ScenarioTripleAsStated ==
    pc = "returned" => ret \in { <<0, 4, 0>>, <<0, 3, 1>> }

\* C13: in that scenario the returned triple sums to 4 and has errorCount of
\* at least 1 in every interleaving; it is (0, 3, 1) when the first result the
\* consumer takes up is a fatal one, and otherwise the results taken up
\* before the fatal one are counted by their own outcome.
ScenarioTriple ==
    pc = "returned" =>
        /\ ret[1] + ret[2] + ret[3] = totalOrgs /\ ret[3] >= 1
        /\ NumberOf(consumed) = 1 => ret = <<0, 3, 1>>
        /\ ret = << NumberOf({t \in consumed : returned[t].Success}),
                    NumberOf({t \in consumed : IsSkip(returned[t])})
                        + (totalOrgs - NumberOf(consumed)),
                    NumberOf({t \in consumed : IsError(returned[t])}) >>

ScenarioTripleWitness ==
    /\ pc = "returned" /\ consumed = {TargetA} /\ ret = <<0, 3, 1>>
    /\ Len(order) = 2 /\ \E w \in Workers : wpc[w] = "process"

\* --------------------------------------------------- pool size and progress
\* Workers inside a ProcessOrganization call, and targets pulled from the
\* work queue whose result has not yet been put on the results channel.
CallsInProgress == {w \in Workers : wpc[w] = "process"}
InFlight == {t \in Orgs : \E w \in Workers : wpc[w] \in {"process", "send"} /\ worg[w] = t}
Min(a, b) == IF a <= b THEN a ELSE b

\* C21: in a concurrent run the number of ProcessOrganization calls in progress
\* never exceeds the configured concurrency, and the number of targets in flight
\* together never exceeds min(concurrency, len(targets)).
BoundedInFlight ==
    runner = "concurrent" =>
        /\ NumberOf(CallsInProgress) <= concurrency
        /\ NumberOf(InFlight) <= Min(concurrency, totalOrgs)
        /\ NumberOf({w \in Workers : wpc[w] \in {"process", "send"}}) = NumberOf(InFlight)

BoundedInFlightWitness ==
    /\ runner = "concurrent" /\ concurrency = 2 /\ totalOrgs >= 2
    /\ NumberOf(CallsInProgress) = 2 /\ NumberOf(InFlight) = 2

\* C22: the progress counter never exceeds the number of targets, every
\* consumed target (the one with the fatal error included) has advanced it by
\* one, and it equals len(targets) when Process returns, in both runners.
ProgressCompleteOnReturn ==
    /\ progressBar <= totalOrgs
    /\ BetweenResults /\ pc # "break" =>
          progressBar >= NumberOf(consumed)
    /\ pc = "returned" => progressBar = totalOrgs

\* ------------------------------------------------- consumer and shared state
\* A step that takes a result off the results channel, a step of the thread
\* that called Process, and a step that writes a counter or the stopped flag.
ReceivesResult == Len(resultChan') < Len(resultChan)
ConsumerStep == pc' # pc
WritesShared == << countVars, stopped >>' # << countVars, stopped >>
ConsumerReceives ==
    /\ pc = "range" /\ pc' = "count"
    /\ result' = Head(resultChan) /\ resultChan' = Tail(resultChan)
    /\ wpc' = wpc /\ drain' = drain
DrainDiscards ==
    /\ drain = "running" /\ stopped /\ pc \in {"break", "returned"}
    /\ resultChan' = Tail(resultChan)
    /\ UNCHANGED << pc, result, countVars, stopped, wpc, resultsProcessed, consumed >>

\* C23 as stated: only the thread that called Process receives from the
\* results channel (no worker, no background goroutine), only it writes the
\* counters and the stopped flag, and the counts are final once it returned.
SoleConsumerAsStated ==
    [][ /\ ReceivesResult => ConsumerReceives
        /\ WritesShared => ConsumerStep /\ wpc' = wpc /\ pc \in {"count", "classify"}
        /\ pc = "returned" => countVars' = countVars /\ ret' = ret ]_vars

\* C23: until the fatal-abort break the thread that called Process is the only
\* receiver on the results channel; after the break the only receiver is the
\* drain goroutine, which discards what it receives and writes no counter. No
\* worker receives from the results channel, only the calling thread writes the
\* counters and the stopped flag, and the counts are final once it returned.
SoleConsumer ==
    [][ /\ ReceivesResult => ConsumerReceives \/ DrainDiscards
        /\ drain = "running" => stopped /\ pc \in {"break", "returned"}
        /\ WritesShared => ConsumerStep /\ wpc' = wpc /\ pc \in {"count", "classify"}
        /\ pc = "returned" => countVars' = countVars /\ ret' = ret ]_vars

\* Process has returned after an abort and a result that was never consumed
\* has left the results channel through the drain goroutine.
SoleConsumerWitness ==
    /\ runner = "concurrent" /\ pc = "returned" /\ drain # "none"
    /\ ret = << successCount, skippedCount, errorCount >>
    /\ \E t \in Orgs :
          /\ HasReturned(t) /\ t \notin consumed
          /\ \A w \in Workers : worg[w] # t
          /\ \A k \in DOMAIN resultChan : resultChan[k].Organization # t

\* The consumer is between cp.mu.Lock() and the unlock that ends the handling
\* of one result.
HandlingResult == runner = "concurrent" /\ pc \in {"count", "classify", "increment"}

\* C24: the mutex is locked exactly while the consumer handles one result; it
\* is locked and unlocked by steps of the consumer only, so no worker holds it
\* when it enters, runs or leaves ProcessOrganization; and it is unlocked on
\* every way out of the result loop, the fatal-abort break included, so
\* Process never returns with the mutex locked.
MutexOnlyAroundOneResult ==
    /\ [](mu <=> HandlingResult)
    /\ [](pc \in {"break", "returned"} => ~mu)
    /\ [][ /\ mu' # mu => ConsumerStep /\ workerVars' = workerVars
           /\ \A w \in Workers : wpc'[w] # wpc[w] => mu' = mu ]_vars

\* Process has returned through the fatal-abort break with the mutex free
\* while a worker is still inside ProcessOrganization.
MutexOnlyAroundOneResultWitness ==
    /\ runner = "concurrent" /\ pc = "returned" /\ stopped /\ ~mu
    /\ \E w \in Workers : wpc[w] = "process"

\* ------------------------------------------------------- generate, step order
\* The configuration API calls made so far and their names, in order.
ConfigurationCallsMade == SelectSeq(calls, LAMBDA c : c.api \in ConfigurationCalls)
ApiNames(cc) == [k \in DOMAIN cc |-> cc[k].api]
IsPrefix(s, t) == Len(s) <= Len(t) /\ \A k \in DOMAIN s : s[k] = t[k]

\* The remote steps a generate run makes when none fails, with or without the
\* delete of an existing configuration.
GenerateSteps(withDelete) ==
    <<"fetch">>
      \o (IF withDelete THEN <<"delete">> ELSE <<>>)
      \o <<"create">>
      \o (IF processor.Scope # "none" THEN <<"attach">> ELSE <<>>)
      \o (IF processor.SetAsDefault THEN <<"default">> ELSE <<>>)

GenerateStepsInOrder ==
    processor.kind = "generate" =>
        LET cc == ConfigurationCallsMade
        IN /\ \E d \in BOOLEAN :
                /\ d => processor.Force
                /\ IsPrefix(ApiNames(cc), GenerateSteps(d))
           /\ \A k \in DOMAIN cc : k < Len(cc) => cc[k].ok
           /\ \A k \in DOMAIN calls : k < Len(calls) => calls[k].ok
           /\ ppc = "done" /\ cc # <<>> /\ ~Last(cc).ok =>
                 presult.Error # NilError /\ ~presult.Success /\ ~presult.Skipped
           /\ ppc = "done" /\ presult.Success =>
                 /\ \A k \in DOMAIN cc : cc[k].ok
                 /\ \E d \in BOOLEAN : ApiNames(cc) = GenerateSteps(d)
           /\ ppc = "done" /\ cc # <<>> /\ Last(cc).ok /\ ~presult.Success =>
                 /\ ApiNames(cc) = <<"fetch">> /\ ~processor.Force
                 /\ presult.Error = ConfigurationExistsError

\* What the generate run does with the answer to a successful list call.
GenerateAfterFetch ==
    processor.kind = "generate" /\ ppc = "fetch" /\ ppc' # "fetch" /\ Last(calls').ok =>
        /\ ppc' = "delete" <=> Found.found /\ processor.Force
        /\ ppc' = "create" <=> ~Found.found
        /\ ppc' = "done" <=> Found.found /\ ~processor.Force

\* C25: generate makes its remote steps in the order list, delete (only with
\* Force and an existing configuration of that name), create, attach (unless
\* Scope is "none"), set-default (if requested); a step is made only when every
\* earlier one succeeded, a failing step ends the run with an error result,
\* and Success is returned only when every requested step was made and
\* succeeded.
GenerateFixedOrder ==
    /\ [](GenerateStepsInOrder)
    /\ [][GenerateAfterFetch]_vars

GenerateFixedOrderWitness ==
    /\ processor.kind = "generate" /\ processor.Force
    /\ ppc = "done" /\ presult.Success
    /\ ApiNames(ConfigurationCallsMade) = <<"fetch", "delete", "create", "attach", "default">>

\* ================================================== generate, run after run
\* The generate command run on one organization by either runner, and run a
\* second time with the same flags after a run that reported one success:
\* runGenerate builds a GenerateProcessor and a fresh runner on every
\* invocation (the sequential one when a delay is given), the organization's
\* configurations stay as the run left them.
GenerateProcessors == {p \in Processors : p.kind = "generate"}

GenerateRunInit ==
    /\ CommandIdle /\ runs = 1
    /\ runner \in {"concurrent", "sequential"}
    /\ organizations = << TheOrg >>
    /\ concurrency = 1 /\ delay = (IF runner = "sequential" THEN 1 ELSE 0)
    /\ pc = "start" /\ i = 0 /\ result = NoResult
    /\ successCount = 0 /\ skippedCount = 0 /\ errorCount = 0
    /\ stopSignal = "open" /\ stopped = FALSE /\ closes = 0
    /\ mu = FALSE /\ resultsProcessed = 0 /\ progressBar = 0
    /\ orgChan = <<>> /\ resultChan = <<>> /\ resultChanClosed = FALSE
    /\ wg = 0
    /\ wpc = [w \in Workers |-> "none"]
    /\ worg = [w \in Workers |-> 0]
    /\ wres = [w \in Workers |-> NoResult]
    /\ supervisor = "none" /\ drain = "none"
    /\ invoked = [t \in Targets |-> 0]
    /\ returned = [t \in Targets |-> NoResult]
    /\ order = <<>> /\ consumed = {} /\ sleeps = <<>> /\ ret = <<>>
    /\ processor \in GenerateProcessors
    /\ remote \in [ userOk : BOOLEAN, membership : MembershipAnswers,
                    configs : RemoteConfigLists ]
    /\ ppc = "idle" /\ configID = 0 /\ calls = <<>> /\ presult = NoResult

\* The runner's thread enters gp.ProcessOrganization(org).
CallProcessOrganization ==
    /\ ppc = "idle"
    /\ \/ runner = "sequential" /\ pc = "call"
       \/ runner = "concurrent" /\ \E w \in Workers : wpc[w] = "process"
    /\ ppc' = "membership"
    /\ UNCHANGED << engineVars, cmdVars, processor, remote, configID, calls, presult >>

\* result := sp.processor.ProcessOrganization(org), with the processor's result.
SpProcessReturns ==
    /\ runner = "sequential" /\ pc = "call" /\ ppc = "done"
    /\ result' = presult
    /\ returned' = [returned EXCEPT ![organizations[i]] = presult]
    /\ invoked' = [invoked EXCEPT ![organizations[i]] = @ + 1]
    /\ order' = Append(order, organizations[i])
    /\ consumed' = consumed \cup {organizations[i]}
    /\ pc' = "count"
    /\ UNCHANGED << cfgVars, i, countVars, cpVars, progressBar, sleeps, ret >>

\* worker: result := cp.processor.ProcessOrganization(org), with the
\* processor's result.
WorkerProcessReturns(w) ==
    /\ wpc[w] = "process" /\ ppc = "done"
    /\ wres' = [wres EXCEPT ![w] = presult]
    /\ returned' = [returned EXCEPT ![worg[w]] = presult]
    /\ wpc' = [wpc EXCEPT ![w] = "send"]
    /\ UNCHANGED << cfgVars, pc, i, result, countVars, stopSignal, stopped, closes, mu,
                    resultsProcessed, progressBar, orgChan, resultChan, resultChanClosed,
                    wg, worg, supervisor, drain, invoked, order, consumed, sleeps, ret >>

\* The command is run again after a run that returned (1, 0, 0): a new
\* process, a new GenerateProcessor with the same flags, a new runner.
InvokeAgain ==
    /\ pc = "returned" /\ ret = <<1, 0, 0>> /\ runs < MaxRuns
    /\ runs' = runs + 1
    /\ pc' = "start" /\ i' = 0 /\ result' = NoResult /\ ret' = <<>>
    /\ successCount' = 0 /\ skippedCount' = 0 /\ errorCount' = 0
    /\ stopSignal' = "open" /\ stopped' = FALSE /\ closes' = 0
    /\ mu' = FALSE /\ resultsProcessed' = 0 /\ progressBar' = 0
    /\ orgChan' = <<>> /\ resultChan' = <<>> /\ resultChanClosed' = FALSE
    /\ wg' = 0
    /\ wpc' = [w \in Workers |-> "none"]
    /\ worg' = [w \in Workers |-> 0]
    /\ wres' = [w \in Workers |-> NoResult]
    /\ supervisor' = "none" /\ drain' = "none"
    /\ invoked' = [t \in Targets |-> 0]
    /\ returned' = [t \in Targets |-> NoResult]
    /\ order' = <<>> /\ consumed' = {} /\ sleeps' = <<>>
    /\ ppc' = "idle" /\ configID' = 0 /\ calls' = <<>> /\ presult' = NoResult
    /\ UNCHANGED << runner, organizations, concurrency, delay, processor, remote, cmdVars >>

\* (with one organization nothing is left on the results channel for the
\* drain goroutine to discard)
GenerateRunNext ==
    \/ SpStart \/ SpDelay \/ SpProcessReturns \/ SpCount \/ SpClassify
    \/ SpIncrement \/ SpFinish
    \/ CpStart \/ CpReceive \/ CpCount \/ CpClassify \/ CpIncrement \/ CpReturn
    \/ \E w \in Workers :
          \/ WorkerRecvOrg(w) \/ WorkerRecvClosed(w) \/ WorkerStop(w)
          \/ WorkerProcessReturns(w) \/ WorkerSend(w)
    \/ SupervisorClose
    \/ DrainExit
    \/ CallProcessOrganization
    \/ ValidateMembershipAndSkip
    \/ GenerateFetch \/ GenerateDelete \/ GenerateCreate
    \/ GenerateAttach \/ GenerateSetDefault
    \/ InvokeAgain

GenerateRunSpec == GenerateRunInit /\ [][GenerateRunNext]_vars

\* A call other than the list call was made on the organization's configurations.
ChangingCalls == {"create", "update", "delete", "attach", "default"}
ListCallFailed == \E k \in DOMAIN calls : calls[k].api = "fetch" /\ ~calls[k].ok

\* The list call has just answered a generate run without Force, and a
\* configuration of the given name is there.
ExistsWithoutForceStep ==
    /\ processor.kind = "generate" /\ ~processor.Force
    /\ ppc = "fetch" /\ ppc' # "fetch" /\ Last(calls').ok /\ Found.found

\* C26: generate without Force on a target that has a configuration of the
\* given name makes no create, delete, attach or set-default call, hands back
\* a ConfigurationExistsError and is counted as Skipped by the runner; and a
\* second run without Force after a run that returned Success leaves the
\* target's configurations as they are and, its list call answering, counts
\* the target as Skipped.
ExistingConfigurationSkipped ==
    /\ [][ExistsWithoutForceStep =>
             /\ ppc' = "done" /\ remote' = remote
             /\ presult' = ProcessingResult(TheOrg, FALSE, FALSE, ConfigurationExistsError)]_vars
    /\ [](ppc = "done" /\ IsExists(presult) =>
             /\ CallsMade \cap ChangingCalls = {}
             /\ pc = "returned" => ret = <<0, 1, 0>>)
    /\ [][runs = 2 /\ ~processor.Force => remote' = remote]_vars
    /\ [](runs = 2 /\ ~processor.Force =>
             /\ Found.found
             /\ CallsMade \cap ChangingCalls = {}
             /\ pc = "returned" /\ ~ListCallFailed => ret = <<0, 1, 0>>)

ExistingConfigurationSkippedWitness ==
    /\ runs = 2 /\ ~processor.Force /\ pc = "returned" /\ ret = <<0, 1, 0>>
    /\ presult = ProcessingResult(TheOrg, FALSE, FALSE, ConfigurationExistsError)
    /\ ApiNames(ConfigurationCallsMade) = <<"fetch">>

\* ------------------------------------------------------ the aborting target
\* The run was aborted: a fatal result was taken up by the Process loop.
Aborted == \E t \in consumed : IsFatal(returned[t])
NeverConsumed == Orgs \ consumed

\* C27: in both runners a run that aborts took up exactly one fatal result
\* and counted that target as one Error (not as Skipped, not in no count): the
\* returned errorCount is the number of consumed targets with an error result,
\* the fatal one among them, so it is at least 1; and the returned
\* skippedCount holds every target that was never consumed.
FatalTargetCountedAsError ==
    pc = "returned" /\ Aborted =>
        /\ NumberOf({t \in consumed : IsFatal(returned[t])}) = 1
        /\ ret[3] = NumberOf({t \in consumed : IsError(returned[t])})
        /\ ret[3] >= 1
        /\ ret[2] = NumberOf({t \in consumed : IsSkip(returned[t])}) + NumberOf(NeverConsumed)
        /\ ret[2] >= NumberOf(NeverConsumed)
        /\ ret[1] + ret[2] + ret[3] = totalOrgs

FatalTargetCountedAsErrorWitness ==
    /\ pc = "returned" /\ Aborted /\ NeverConsumed # {}
    /\ ret = <<0, totalOrgs - 1, 1>>

\* --------------------------------------------------------- result well-formed
\* How many of Success, Skipped and Error != nil a result has set.
OutcomesSet(r) ==
    (IF r.Success THEN 1 ELSE 0) + (IF r.Skipped THEN 1 ELSE 0)
        + (IF r.Error # NilError THEN 1 ELSE 0)

\* C28: the result handed back by the generate, delete, modify and apply
\* processors names the organization the processor was called for and has
\* exactly one of Success, Skipped and Error != nil set.
ExactlyOneOutcome ==
    /\ ppc = "done" =>
          /\ processor.kind \in {"generate", "delete", "modify", "apply"}
          /\ presult.Organization = TheOrg
          /\ OutcomesSet(presult) = 1
    /\ ppc # "done" => presult = NoResult

ExactlyOneOutcomeWitness ==
    /\ ppc = "done" /\ processor.kind = "apply" /\ presult.Skipped
    /\ ApiNames(ConfigurationCallsMade) = <<"fetch">> /\ Last(calls).ok

\* ============================================ the earlier ConcurrentProcessor
\* internal/processors/concurrent.go: the worker pool without the stop signal.
\* Its workers range over orgChan (WorkerRecvOrg, WorkerRecvClosed,
\* WorkerProcess, WorkerSend); its result loop has no fatal branch.

\* Process, lines 36-66.
EarlierCpStart ==
    /\ runner = "earlierConcurrent" /\ pc = "start"
    /\ IF totalOrgs = 0
         THEN /\ pc' = "returned" /\ ret' = <<0, 0, 0>>
              /\ UNCHANGED << orgChan, wg, wpc, supervisor >>
         ELSE /\ orgChan' = organizations
              /\ wg' = wg + concurrency
              /\ wpc' = [w \in Workers |-> IF w <= concurrency THEN "select" ELSE "none"]
              /\ supervisor' = "wait"
              /\ pc' = "range"
              /\ ret' = ret
    /\ UNCHANGED << cfgVars, i, result, countVars, stopSignal, stopped, closes, mu,
                    resultsProcessed, progressBar, resultChan, resultChanClosed,
                    worg, wres, drain, histVars, sleeps >>

\* for result := range resultChan: receive, cp.mu.Lock().
EarlierCpReceive ==
    /\ runner = "earlierConcurrent" /\ pc = "range" /\ Len(resultChan) > 0
    /\ ~mu
    /\ result' = Head(resultChan)
    /\ resultChan' = Tail(resultChan)
    /\ mu' = TRUE
    /\ consumed' = consumed \cup {Head(resultChan).Organization}
    /\ pc' = "count"
    /\ UNCHANGED << cfgVars, i, countVars, stopSignal, stopped, closes, progressBar,
                    resultsProcessed, orgChan, resultChanClosed, wg, workerVars,
                    supervisor, drain, invoked, returned, order, sleeps, ret >>

\* The if / else-if chain on Success, Skipped, Error != nil.
EarlierCpCount ==
    /\ runner = "earlierConcurrent" /\ pc = "count"
    /\ IF result.Success
         THEN /\ successCount' = successCount + 1
              /\ UNCHANGED << skippedCount, errorCount >> /\ pc' = "increment"
         ELSE IF result.Skipped
         THEN /\ skippedCount' = skippedCount + 1
              /\ UNCHANGED << successCount, errorCount >> /\ pc' = "increment"
         ELSE IF result.Error # NilError
         THEN /\ errorCount' = errorCount + 1
              /\ UNCHANGED << successCount, skippedCount >> /\ pc' = "classify"
         ELSE UNCHANGED countVars /\ pc' = "increment"
    /\ UNCHANGED << cfgVars, i, result, cpVars, progressBar, histVars, sleeps, ret >>

\* Faulty variant: the configuration-exists branch forgets errorCount--.
EarlierCpClassifyNoDecrement ==
    /\ runner = "earlierConcurrent" /\ pc = "classify"
    /\ IF ErrorsAs(result.Error, "ConfigurationExistsError")
         THEN skippedCount' = skippedCount + 1 /\ errorCount' = errorCount
         ELSE UNCHANGED << skippedCount, errorCount >>
    /\ pc' = "increment"
    /\ UNCHANGED << cfgVars, i, result, successCount, cpVars, progressBar, histVars,
                    sleeps, ret >>

\* Error classification: configuration exists, or any other error.
EarlierCpClassify ==
    /\ runner = "earlierConcurrent" /\ pc = "classify"
    /\ IF ErrorsAs(result.Error, "ConfigurationExistsError")
         THEN skippedCount' = skippedCount + 1 /\ errorCount' = errorCount - 1
         ELSE UNCHANGED << skippedCount, errorCount >>
    /\ pc' = "increment"
    /\ UNCHANGED << cfgVars, i, result, successCount, cpVars, progressBar, histVars,
                    sleeps, ret >>

\* cp.progressBar.Increment(); cp.mu.Unlock()
EarlierCpIncrement ==
    /\ runner = "earlierConcurrent" /\ pc = "increment"
    /\ progressBar' = progressBar + 1
    /\ mu' = FALSE
    /\ result' = NoResult
    /\ pc' = "range"
    /\ UNCHANGED << cfgVars, i, countVars, stopSignal, stopped, closes, resultsProcessed,
                    orgChan, resultChan, resultChanClosed, wg, workerVars, supervisor,
                    drain, histVars, sleeps, ret >>

\* The range loop ends (channel closed and empty): Stop() and return.
EarlierCpReturn ==
    /\ runner = "earlierConcurrent"
    /\ pc = "range" /\ Len(resultChan) = 0 /\ resultChanClosed
    /\ ret' = << successCount, skippedCount, errorCount >>
    /\ result' = NoResult
    /\ pc' = "returned"
    /\ UNCHANGED << cfgVars, i, countVars, cpVars, progressBar, histVars, sleeps >>

EarlierMainThread ==
    \/ EarlierCpStart \/ EarlierCpReceive \/ EarlierCpCount
    \/ EarlierCpClassify \/ EarlierCpIncrement \/ EarlierCpReturn

\* The three runners side by side, each constructed as in Init.
AllRunnersInit ==
    /\ ProcessorIdle /\ CommandIdle /\ runs = 1
    /\ runner \in {"concurrent", "sequential", "earlierConcurrent"}
    /\ \E n \in 0..MaxTargets : organizations = [k \in 1..n |-> k]
    /\ concurrency \in (IF runner = "sequential" THEN {1} ELSE 1..MaxConcurrency)
    /\ delay \in (IF runner = "sequential" THEN 0..MaxDelay ELSE {0})
    /\ pc = "start" /\ i = 0 /\ result = NoResult
    /\ successCount = 0 /\ skippedCount = 0 /\ errorCount = 0
    /\ stopSignal = "open" /\ stopped = FALSE /\ closes = 0
    /\ mu = FALSE /\ resultsProcessed = 0 /\ progressBar = 0
    /\ orgChan = <<>> /\ resultChan = <<>> /\ resultChanClosed = FALSE
    /\ wg = 0
    /\ wpc = [w \in Workers |-> "none"]
    /\ worg = [w \in Workers |-> 0]
    /\ wres = [w \in Workers |-> NoResult]
    /\ supervisor = "none" /\ drain = "none"
    /\ invoked = [t \in Targets |-> 0]
    /\ returned = [t \in Targets |-> NoResult]
    /\ order = <<>> /\ consumed = {} /\ sleeps = <<>> /\ ret = <<>>

AllRunnersNext ==
    \/ MainThread
    \/ EarlierMainThread
    \/ \E w \in Workers : Worker(w)
    \/ SupervisorClose
    \/ Drain

AllRunnersSpec == AllRunnersInit /\ [][AllRunnersNext]_vars

\* The triple the per-target outcomes alone determine.
OutcomeTriple ==
    << NumberOf({t \in Orgs : HasReturned(t) /\ returned[t].Success}),
       NumberOf({t \in Orgs : HasReturned(t) /\ IsSkip(returned[t])}),
       NumberOf({t \in Orgs : HasReturned(t) /\ IsError(returned[t])}) >>
NoFatalReturned == \A t \in Orgs : ~IsFatal(returned[t])

\* C29: when no target returns a fatal error, Process returns the triple that
\* the per-target outcomes determine, having called every target: the same
\* triple whatever the worker interleaving and the concurrency, and the same
\* for the concurrent runner, the sequential runner and the earlier
\* ConcurrentProcessor without cancellation.
TripleDependsOnOutcomesOnly ==
    pc = "returned" /\ NoFatalReturned =>
        /\ \A t \in Orgs : HasReturned(t) /\ invoked[t] = 1
        /\ ret = OutcomeTriple
        /\ ret[1] + ret[2] + ret[3] = totalOrgs

TripleDependsOnOutcomesOnlyWitness ==
    /\ runner = "earlierConcurrent" /\ concurrency = 2 /\ totalOrgs = 2
    /\ pc = "returned" /\ NoFatalReturned
    /\ order = <<1, 2>> /\ IsExists(returned[1]) /\ IsOrdinary(returned[2])
    /\ ret = <<0, 1, 1>>

\* ------------------------------------------------------- where fatal comes from
\* The settings switch a Dependabot feature on.
DependabotEnabled(settings) ==
    \/ settings.dependabot_alerts \notin {"absent", "not_set", "disabled"}
    \/ settings.dependabot_security_updates \notin {"absent", "not_set", "disabled"}

\* The result comes from a create call of generate that failed with a
\* Dependabot feature switched on.
FromFailedCreate ==
    /\ processor.kind = "generate" /\ DependabotEnabled(processor.Settings)
    /\ Last(calls).api = "create" /\ ~Last(calls).ok

\* C30: a fatal DependabotUnavailableError comes only from the create step of
\* generate, and only when that call failed with status 422 and the settings
\* switch a Dependabot feature on; a delete, modify or apply run, and a
\* generate run with no Dependabot feature switched on, never hands back a
\* fatal result (so its runner never aborts early).
FatalOnlyFromCreate422 ==
    ppc = "done" /\ IsFatal(presult) =>
        /\ FromFailedCreate
        /\ Last(calls).status = 422

====
